---- MODULE Spec2Model ----
(***************************************************************************)
(* Model of the vision-infra logging subsystem: Logger (one named sink     *)
(* with a threshold, console and file output, a pattern and a write        *)
(* mutex) and LoggerManager (the process-wide registry of named loggers).  *)
(* Strings are sequences of one-character strings; standard output,        *)
(* standard error and files are character sequences.  Every member         *)
(* function is a sequence of steps of the calling thread, one step per     *)
(* access to shared state.                                                 *)
(***************************************************************************)
EXTENDS Integers, Sequences, FiniteSets, TLC

(* ------------------------------ bounds --------------------------------- *)
\* Logger calls (Log, SetLevel, SetOutputFile, Enable*, SetPattern) made
\* in one behaviour.
MaxCalls == 4
\* Calls made in one behaviour that uses the registry (GetLogger,
\* SetDefaultLogger, SetGlobalLevel, and SetLevel on a logger obtained).
MaxReg == 3
\* Logger objects the application constructs itself in one behaviour.
MaxMade == 1

(* --------------------------- LogLevel enum ----------------------------- *)
TRACE == 0
DEBUG == 1
INFO == 2
WARN == 3
ERROR == 4
FATAL == 5
LogLevel == {TRACE, DEBUG, INFO, WARN, ERROR, FATAL}

(* ------------------------------ strings -------------------------------- *)
Empty == <<>>
NL == "\n"
S_default == <<"d", "e", "f", "a", "u", "l", "t">>
S_app == <<"a", "p", "p">>
S_net == <<"n", "e", "t">>
TokTimestamp == <<"{", "t", "i", "m", "e", "s", "t", "a", "m", "p", "}">>
TokLevel == <<"{", "l", "e", "v", "e", "l", "}">>
TokName == <<"{", "n", "a", "m", "e", "}">>
TokMessage == <<"{", "m", "e", "s", "s", "a", "g", "e", "}">>
\* "[{timestamp}] [{level}] [{name}] {message}"
DefaultPattern ==
    <<"[">> \o TokTimestamp \o <<"]", " ", "[">> \o TokLevel
        \o <<"]", " ", "[">> \o TokName \o <<"]", " ">> \o TokMessage
\* "{level}: {message}", a pattern an application sets
ShortPattern == TokLevel \o <<":", " ">> \o TokMessage
\* what a read of pattern_ that races a write of it may yield besides the
\* old and the new value
TornPattern == <<"?">>
Patterns == {DefaultPattern, ShortPattern}
Messages == {<<"a">>, <<"b">>}
\* the text std::put_time produces for the current time
TimeStamps == {<<"1", "2", ":", "0", "0">>}
X_log == <<"x", ".", "l", "o", "g">>
Y_log == <<"y", ".", "l", "o", "g">>
\* a path in a directory that does not exist: open() fails on it
Bad_log == <<"/", "n", "o", "/", "z">>
Paths == {X_log, Y_log, Bad_log}
Openable == {X_log, Y_log}
Names == {Empty, S_default, S_app, S_net}

Threads == {"t1", "t2"}
NoThread == "none"
nullptr == 0

Min(S) == CHOOSE x \in S : \A y \in S : x <= y

\* std::string::find: the first position (1-based) of sub in s, 0 for npos
Find(s, sub) ==
    LET hits == {i \in 1..(Len(s) - Len(sub) + 1) :
                    SubSeq(s, i, i + Len(sub) - 1) = sub}
    IN IF hits = {} THEN 0 ELSE Min(hits)

\* std::string::replace(pos, n, r), pos 1-based
StrReplace(s, pos, n, r) ==
    SubSeq(s, 1, pos - 1) \o r \o SubSeq(s, pos + n, Len(s))

LogLevelToString(level) ==
    CASE level = TRACE -> <<"T", "R", "A", "C", "E">>
      [] level = DEBUG -> <<"D", "E", "B", "U", "G">>
      [] level = INFO -> <<"I", "N", "F", "O">>
      [] level = WARN -> <<"W", "A", "R", "N">>
      [] level = ERROR -> <<"E", "R", "R", "O", "R">>
      [] level = FATAL -> <<"F", "A", "T", "A", "L">>
      [] OTHER -> <<"U", "N", "K", "N", "O", "W", "N">>

\* the string is read once: str is its value at the call
ReplaceFirst(s, tok, n, r) ==
    LET replaced == {IF Find(str, tok) # 0
                     THEN StrReplace(str, Find(str, tok), n, r)
                     ELSE str : str \in {s}}
    IN CHOOSE formatted \in replaced : TRUE

\* Logger::Impl::FormatMessage on a pattern read as `pattern`
FormatMessage(pattern, timestamp_enabled, name, now, level, message) ==
    LET f1 == IF timestamp_enabled
              THEN ReplaceFirst(pattern, TokTimestamp, 11, now)
              ELSE pattern
        f2 == ReplaceFirst(f1, TokLevel, 7, LogLevelToString(level))
        f3 == ReplaceFirst(f2, TokName, 6, name)
    IN ReplaceFirst(f3, TokMessage, 9, message)

(* ------------------------------- state --------------------------------- *)
VARIABLES
    pImpl_,          \* the Logger objects: pImpl_[p] is the Impl of logger p
    loggers_,        \* LoggerManagerImpl: name -> logger, nullptr if absent
    default_logger_, \* LoggerManagerImpl: the default logger
    global_level_,   \* LoggerManagerImpl
    manager_mutex_,  \* LoggerManagerImpl: the owning thread or NoThread
    cout,            \* standard output
    cerr,            \* standard error
    disk,            \* the content of each file
    pc,              \* each thread's position
    frame,           \* each thread's arguments and locals
    obtained,        \* <<name, logger, epoch>> of each GetLogger return, in order
    made,            \* loggers the application constructed itself
    epoch,           \* how many times default_logger_ has been assigned
    calls,           \* calls made so far, by kind
    scenario,        \* how far the calls so far follow the file scenario
    pre,             \* what had been written when the last call was made
    lastGlobal,      \* the level of the last SetGlobalLevel call made
    lastDefault,     \* the logger of the last SetDefaultLogger call made
    want,            \* per logger, the level the calls made wrote last
    arg,             \* the arguments of the call to a function without state
    ret              \* what that call returned

vars == <<pImpl_, loggers_, default_logger_, global_level_, manager_mutex_,
          cout, cerr, disk, pc, frame, obtained, made, epoch,
          calls, scenario, pre, lastGlobal, lastDefault, want, arg, ret>>
registry == <<loggers_, default_logger_, global_level_, manager_mutex_>>
output == <<cout, cerr, disk>>
history == <<obtained, made, epoch>>
observed == <<scenario, pre, lastGlobal, lastDefault, want, arg, ret>>
budget == <<calls, observed>>

ClosedStream == [is_open |-> FALSE, path |-> Empty, buf |-> Empty]

\* Logger::Logger(name) over a default-initialised Impl
NewLogger(name) ==
    [name_ |-> IF name = Empty THEN S_default ELSE name,
     current_level_ |-> INFO,
     file_stream_ |-> ClosedStream,
     console_enabled_ |-> TRUE,
     timestamp_enabled_ |-> TRUE,
     pattern_ |-> DefaultPattern,
     log_mutex_ |-> NoThread]

NoFrame == [lg |-> nullptr]
NoScenario == <<"none", "none">>
\* the Logger objects a behaviour can hold
Objects == 1..(1 + MaxReg + MaxMade)
\* want holds sets of levels: no level while no call has written one
Unset == {}

NoArg == [op |-> "none"]
\* what ret holds before the call has returned
NoRet == <<>>

\* LoggerManagerImpl's constructor: the default logger exists, nothing else
Started ==
    /\ pImpl_ = <<NewLogger(S_default)>>
    /\ loggers_ = [n \in Names |-> nullptr]
    /\ default_logger_ = 1
    /\ global_level_ = INFO
    /\ manager_mutex_ = NoThread
    /\ cout = Empty
    /\ cerr = Empty
    /\ disk = [p \in Paths |-> Empty]
    /\ pc = [t \in Threads |-> "idle"]
    /\ frame = [t \in Threads |-> NoFrame]
    /\ obtained = <<>>
    /\ made = {}
    /\ epoch = 0
    /\ calls = [logger |-> 0, registry |-> 0]
    /\ scenario = NoScenario
    /\ lastGlobal = INFO
    /\ lastDefault = 1
    /\ want = [p \in Objects |-> Unset]
    /\ pre = [cout |-> 0, cerr |-> 0, disk |-> [p \in Paths |-> 0]]

Init ==
    /\ arg = NoArg
    /\ ret = NoRet
    /\ Started

\* everything but the call to a function without state
program ==
    <<pImpl_, registry, output, pc, frame, history, calls, scenario, pre,
      lastGlobal, lastDefault, want>>

\* how much has been written to each output so far
Written ==
    [cout |-> Len(cout), cerr |-> Len(cerr),
     disk |-> [p \in Paths |-> Len(disk[p])]]

\* The file scenario: SetOutputFile("x.log") on a logger whose threshold is
\* at most INFO, then Log(INFO, "a"), Log(INFO, "b"), then Flush(), with no
\* other call in between.  The scenario is "fresh" when x.log is empty at
\* the SetOutputFile call and "old" when it has content.
Follow(call) ==
    scenario' =
        CASE call.op = "SetOutputFile" ->
                IF /\ call.filename = X_log
                   /\ pImpl_[call.lg].current_level_ <= INFO
                THEN IF disk[X_log] = Empty
                     THEN <<"opened", "fresh">> ELSE <<"opened", "old">>
                ELSE NoScenario
          [] call.op = "Log" ->
                IF call.level = INFO /\ call.message = <<"a">>
                       /\ scenario[1] = "opened" THEN <<"a", scenario[2]>>
                ELSE IF call.level = INFO /\ call.message = <<"b">>
                       /\ scenario[1] = "a" THEN <<"ab", scenario[2]>>
                ELSE NoScenario
          [] call.op = "Flush" ->
                IF scenario[1] = "ab" THEN <<"flushed", scenario[2]>>
                ELSE NoScenario
          [] OTHER -> NoScenario

\* the single caller's call is observed
Observe(call) ==
    /\ pre' = Written
    /\ Follow(call)
    /\ lastGlobal' = IF call.op = "SetGlobalLevel" THEN call.level
                     ELSE lastGlobal
    /\ lastDefault' = IF call.op = "SetDefaultLogger" THEN call.logger
                      ELSE lastDefault
    /\ want' =
          CASE call.op = "SetLevel" ->
                  [want EXCEPT ![call.lg] = {call.level}]
            [] call.op = "SetGlobalLevel" ->
                  [p \in Objects |->
                      IF \/ p = default_logger_
                         \/ \E n \in Names : loggers_[n] = p
                      THEN {call.level} ELSE want[p]]
            [] OTHER -> want
    /\ UNCHANGED <<arg, ret>>

\* a logger call is made
Count ==
    /\ calls.logger < MaxCalls
    /\ calls' = [calls EXCEPT !.logger = @ + 1]

Return(t) ==
    /\ pc' = [pc EXCEPT ![t] = "idle"]
    /\ frame' = [frame EXCEPT ![t] = NoFrame]

Goto(t, label) == pc' = [pc EXCEPT ![t] = label]

\* a lock that excludes nobody
CanLockAlways(owner) == TRUE

\* std::lock_guard's constructor may proceed
CanLock(owner) == owner = NoThread

Impl(t) == pImpl_[frame[t].lg]

SetImpl(t, field, value) ==
    pImpl_' = [pImpl_ EXCEPT ![frame[t].lg][field] = value]

Unlock(t, impl) == [impl EXCEPT !.log_mutex_ = NoThread]

\* a flush that writes nothing
FlushedNothing(d, fs) == d

\* std::ofstream::flush / the flush close() does: the buffer reaches the file
Flushed(d, fs) ==
    IF fs.is_open THEN [d EXCEPT ![fs.path] = @ \o fs.buf] ELSE d

\* std::ofstream::open(filename, std::ios::app): fails on a stream that is
\* open already and on a path that cannot be opened; never truncates
Open(fs, filename) ==
    IF ~fs.is_open /\ filename \in Openable
    THEN [is_open |-> TRUE, path |-> filename, buf |-> Empty]
    ELSE fs

\* what the copy of pattern_ in FormatMessage may read: SetPattern writes
\* pattern_ without the mutex, so a copy made while a write is in progress
\* is a data race
ReadPattern(lg) ==
    LET writers == {u \in Threads : pc[u] = "sp_write" /\ frame[u].lg = lg}
    IN IF writers = {}
       THEN {pImpl_[lg].pattern_}
       ELSE {pImpl_[lg].pattern_, TornPattern}
                \cup {frame[u].pattern : u \in writers}

(* ----------------------------- Logger::Log ----------------------------- *)
LogCall(t, lg, level, message) ==
    /\ pc[t] = "idle"
    /\ Count
    /\ Goto(t, "log_check")
    /\ frame' = [frame EXCEPT ![t] =
                    [lg |-> lg, level |-> level, message |-> message,
                     formatted |-> Empty]]
    /\ UNCHANGED <<pImpl_, registry, output, history>>

\* the comparison reversed
AboveThreshold(level, current_level) == level > current_level

\* level < pImpl_->current_level_
BelowThreshold(level, current_level) == level < current_level

\* if (level < pImpl_->current_level_) return;
LogCheck(t) ==
    /\ pc[t] = "log_check"
    /\ IF BelowThreshold(frame[t].level, Impl(t).current_level_)
       THEN Return(t)
       ELSE Goto(t, "log_lock") /\ UNCHANGED frame
    /\ UNCHANGED <<pImpl_, registry, output, history, budget>>

LogLock(t) ==
    /\ pc[t] = "log_lock"
    /\ CanLock(Impl(t).log_mutex_)
    /\ SetImpl(t, "log_mutex_", t)
    /\ Goto(t, "log_format")
    /\ UNCHANGED <<frame, registry, output, history, budget>>

\* std::string formatted = pattern_;
LogFormat(t) ==
    /\ pc[t] = "log_format"
    /\ \E pattern \in ReadPattern(frame[t].lg) :
          frame' = [frame EXCEPT ![t].formatted = pattern]
    /\ Goto(t, "log_subst")
    /\ UNCHANGED <<pImpl_, registry, output, history, budget>>

\* the substitutions of FormatMessage
LogSubst(t) ==
    /\ pc[t] = "log_subst"
    /\ \E now \in TimeStamps :
          frame' = [frame EXCEPT ![t].formatted =
                       FormatMessage(@, Impl(t).timestamp_enabled_,
                                     Impl(t).name_, now,
                                     frame[t].level, frame[t].message)]
    /\ Goto(t, "log_console")
    /\ UNCHANGED <<pImpl_, registry, output, history, budget>>

\* ERROR itself sent to std::cout
ToCerrAboveError(level) == level > ERROR

\* whether Log sends this level to std::cerr: level >= LogLevel::ERROR
ToCerr(level) == level >= ERROR

\* if (console_enabled_) { std::cerr or std::cout << formatted
LogConsole(t) ==
    /\ pc[t] = "log_console"
    /\ IF Impl(t).console_enabled_
       THEN /\ IF ToCerr(frame[t].level)
               THEN cerr' = cerr \o frame[t].formatted /\ UNCHANGED cout
               ELSE cout' = cout \o frame[t].formatted /\ UNCHANGED cerr
            /\ Goto(t, "log_console_endl")
       ELSE Goto(t, "log_file") /\ UNCHANGED <<cout, cerr>>
    /\ UNCHANGED <<pImpl_, frame, registry, disk, history, budget>>

\* << std::endl; }
LogConsoleEndl(t) ==
    /\ pc[t] = "log_console_endl"
    /\ IF ToCerr(frame[t].level)
       THEN cerr' = Append(cerr, NL) /\ UNCHANGED cout
       ELSE cout' = Append(cout, NL) /\ UNCHANGED cerr
    /\ Goto(t, "log_file")
    /\ UNCHANGED <<pImpl_, frame, registry, disk, history, budget>>

\* if (file_stream_.is_open()) { file_stream_ << formatted
LogFile(t) ==
    /\ pc[t] = "log_file"
    /\ IF Impl(t).file_stream_.is_open
       THEN /\ pImpl_' = [pImpl_ EXCEPT ![frame[t].lg].file_stream_.buf =
                             @ \o frame[t].formatted]
            /\ Goto(t, "log_file_endl")
            /\ UNCHANGED frame
       ELSE /\ pImpl_' = [pImpl_ EXCEPT ![frame[t].lg] = Unlock(t, @)]
            /\ Return(t)
    /\ UNCHANGED <<registry, output, history, budget>>

\* << std::endl; } and the lock_guard's destructor
LogFileEndl(t) ==
    /\ pc[t] = "log_file_endl"
    /\ LET fs == [Impl(t).file_stream_ EXCEPT !.buf = Append(@, NL)]
       IN /\ disk' = Flushed(disk, fs)
          /\ pImpl_' = [pImpl_ EXCEPT ![frame[t].lg] =
                           Unlock(t, [@ EXCEPT !.file_stream_.buf = Empty])]
    /\ Return(t)
    /\ UNCHANGED <<registry, cout, cerr, history, budget>>

(* ------------------------- Logger::SetLevel ---------------------------- *)
SetLevel(t, lg, level) ==
    /\ pc[t] = "idle"
    /\ Count
    /\ pImpl_' = [pImpl_ EXCEPT ![lg].current_level_ = level]
    /\ UNCHANGED <<pc, frame, registry, output, history>>

(* --------------------------- Logger::Flush ----------------------------- *)
FlushCall(t, lg) ==
    /\ pc[t] = "idle"
    /\ Goto(t, "flush_lock")
    /\ frame' = [frame EXCEPT ![t] = [lg |-> lg]]
    /\ UNCHANGED <<pImpl_, registry, output, history, calls>>

FlushLock(t) ==
    /\ pc[t] = "flush_lock"
    /\ CanLock(Impl(t).log_mutex_)
    /\ SetImpl(t, "log_mutex_", t)
    /\ Goto(t, "flush_body")
    /\ UNCHANGED <<frame, registry, output, history, budget>>

\* std::endl has flushed the console streams already
FlushBody(t) ==
    /\ pc[t] = "flush_body"
    /\ disk' = Flushed(disk, Impl(t).file_stream_)
    /\ pImpl_' = [pImpl_ EXCEPT ![frame[t].lg] =
                     Unlock(t, [@ EXCEPT !.file_stream_.buf = Empty])]
    /\ Return(t)
    /\ UNCHANGED <<registry, cout, cerr, history, budget>>

(* ----------------------- Logger::SetOutputFile ------------------------- *)
SetOutputFileCall(t, lg, filename) ==
    /\ pc[t] = "idle"
    /\ Count
    /\ Goto(t, "sof_lock")
    /\ frame' = [frame EXCEPT ![t] = [lg |-> lg, filename |-> filename]]
    /\ UNCHANGED <<pImpl_, registry, output, history>>

SetOutputFileLock(t) ==
    /\ pc[t] = "sof_lock"
    /\ CanLock(Impl(t).log_mutex_)
    /\ SetImpl(t, "log_mutex_", t)
    /\ Goto(t, "sof_close")
    /\ UNCHANGED <<frame, registry, output, history, budget>>

\* the previous file left open
SetOutputFileNoClose(t) ==
    /\ pc[t] = "sof_close"
    /\ Goto(t, "sof_open")
    /\ UNCHANGED <<pImpl_, frame, registry, output, history, budget>>

\* if (file_stream_.is_open()) file_stream_.close();
SetOutputFileClose(t) ==
    /\ pc[t] = "sof_close"
    /\ IF Impl(t).file_stream_.is_open
       THEN /\ disk' = Flushed(disk, Impl(t).file_stream_)
            /\ SetImpl(t, "file_stream_", ClosedStream)
       ELSE UNCHANGED <<disk, pImpl_>>
    /\ Goto(t, "sof_open")
    /\ UNCHANGED <<frame, registry, cout, cerr, history, budget>>

\* if (!filename.empty()) file_stream_.open(filename, std::ios::app);
SetOutputFileOpen(t) ==
    /\ pc[t] = "sof_open"
    /\ LET fs == IF frame[t].filename # Empty
                 THEN Open(Impl(t).file_stream_, frame[t].filename)
                 ELSE Impl(t).file_stream_
       IN pImpl_' = [pImpl_ EXCEPT ![frame[t].lg] =
                        Unlock(t, [@ EXCEPT !.file_stream_ = fs])]
    /\ Return(t)
    /\ UNCHANGED <<registry, output, history, budget>>

(* --------- Logger::EnableConsoleOutput / EnableTimestamp --------------- *)
EnableConsoleOutput(t, lg, enable) ==
    /\ pc[t] = "idle"
    /\ Count
    /\ pImpl_' = [pImpl_ EXCEPT ![lg].console_enabled_ = enable]
    /\ UNCHANGED <<pc, frame, registry, output, history>>

EnableTimestamp(t, lg, enable) ==
    /\ pc[t] = "idle"
    /\ Count
    /\ pImpl_' = [pImpl_ EXCEPT ![lg].timestamp_enabled_ = enable]
    /\ UNCHANGED <<pc, frame, registry, output, history>>

(* ------------------------- Logger::SetPattern -------------------------- *)
\* the assignment to the std::string pattern_ has started
SetPatternCall(t, lg, pattern) ==
    /\ pc[t] = "idle"
    /\ Count
    /\ Goto(t, "sp_write")
    /\ frame' = [frame EXCEPT ![t] = [lg |-> lg, pattern |-> pattern]]
    /\ UNCHANGED <<pImpl_, registry, output, history>>

\* and is complete
SetPatternWrite(t) ==
    /\ pc[t] = "sp_write"
    /\ SetImpl(t, "pattern_", frame[t].pattern)
    /\ Return(t)
    /\ UNCHANGED <<registry, output, history, budget>>

\* the steps inside the Logger member functions
LoggerStep(t) ==
    \/ LogCheck(t)
    \/ LogLock(t)
    \/ LogFormat(t)
    \/ LogSubst(t)
    \/ LogConsole(t)
    \/ LogConsoleEndl(t)
    \/ LogFile(t)
    \/ LogFileEndl(t)
    \/ FlushLock(t)
    \/ FlushBody(t)
    \/ SetOutputFileLock(t)
    \/ SetOutputFileClose(t)
    \/ SetOutputFileOpen(t)
    \/ SetPatternWrite(t)

(* ------------- one caller using the default logger's handle ------------ *)
\* what an earlier run of the program left in x.log
OldLine == <<"o", "l", "d", NL>>

\* the program starts with an x.log that an earlier run has written
EarlierRun ==
    /\ calls.logger = 0
    /\ disk[X_log] = Empty
    /\ disk' = [disk EXCEPT ![X_log] = OldLine]
    /\ UNCHANGED <<pImpl_, registry, cout, cerr, pc, frame, history, budget>>

\* every level is logged with "a"; INFO and ERROR also with "b"
NextSeq ==
    \/ EarlierRun
    \/ \E level \in LogLevel, m \in Messages :
          /\ level \in {INFO, ERROR} \/ m = <<"a">>
          /\ LogCall("t1", 1, level, m)
          /\ Observe([op |-> "Log", level |-> level, message |-> m])
    \/ \E level \in LogLevel :
          /\ SetLevel("t1", 1, level)
          /\ Observe([op |-> "SetLevel", lg |-> 1, level |-> level])
    \/ FlushCall("t1", 1) /\ Observe([op |-> "Flush"])
    \/ \E f \in Paths \cup {Empty} :
          /\ SetOutputFileCall("t1", 1, f)
          /\ Observe([op |-> "SetOutputFile", lg |-> 1, filename |-> f])
    \/ \E b \in BOOLEAN :
          EnableConsoleOutput("t1", 1, b) /\ Observe([op |-> "EnableConsole"])
    \/ \E b \in BOOLEAN :
          EnableTimestamp("t1", 1, b) /\ Observe([op |-> "EnableTimestamp"])
    \/ \E p \in Patterns :
          SetPatternCall("t1", 1, p) /\ Observe([op |-> "SetPattern"])
    \/ LoggerStep("t1")

SpecSeq == Init /\ [][NextSeq]_vars

(* ------------ two threads sharing the default logger's handle ---------- *)
LoggerCall(t, lg) ==
    \/ \E level \in {INFO, ERROR}, m \in Messages : LogCall(t, lg, level, m)
    \/ SetLevel(t, lg, WARN)
    \/ FlushCall(t, lg)
    \/ \E f \in {X_log, Empty} : SetOutputFileCall(t, lg, f)
    \/ \E b \in BOOLEAN : EnableConsoleOutput(t, lg, b)
    \/ \E b \in BOOLEAN : EnableTimestamp(t, lg, b)
    \/ SetPatternCall(t, lg, ShortPattern)

NextLogger ==
    \E t \in Threads :
        \/ LoggerCall(t, 1) /\ UNCHANGED observed
        \/ LoggerStep(t)

SpecLogger == Init /\ [][NextLogger]_vars

(* ------------------------ LoggerManager::GetLogger --------------------- *)
DefaultNames == {Empty, S_default}

\* a call may still be made in a behaviour that uses the registry
Budget == calls.registry + calls.logger < MaxReg

CountRegistry ==
    /\ Budget
    /\ calls' = [calls EXCEPT !.registry = @ + 1]

ManagerUnlockKept == manager_mutex_' = manager_mutex_
ManagerUnlock == manager_mutex_' = NoThread

Returned(name, logger) == obtained' = Append(obtained, <<name, logger, epoch>>)

GetLoggerCall(t, name) ==
    /\ pc[t] = "idle"
    /\ CountRegistry
    /\ Goto(t, "gl_lock")
    /\ frame' = [frame EXCEPT ![t] = [lg |-> nullptr, name |-> name]]
    /\ UNCHANGED <<pImpl_, registry, output, history>>

GetLoggerLock(t) ==
    /\ pc[t] = "gl_lock"
    /\ CanLock(manager_mutex_)
    /\ manager_mutex_' = t
    /\ Goto(t, "gl_find")
    /\ UNCHANGED <<pImpl_, loggers_, default_logger_, global_level_, frame,
                   output, history, budget>>

\* a lookup that never finds the name
LookupMisses(name) == nullptr

\* a lookup that takes any registered entry for the name's
LookupAny(name) ==
    IF \E n \in Names : loggers_[n] # nullptr
    THEN loggers_[CHOOSE n \in Names : loggers_[n] # nullptr]
    ELSE nullptr

\* impl.loggers_.find(name): the logger, or nullptr for end()
Lookup(name) == loggers_[name]

\* the default-name test and the lookup
GetLoggerFind(t) ==
    /\ pc[t] = "gl_find"
    /\ LET name == frame[t].name
       IN IF name = Empty \/ name = S_default
          THEN /\ Returned(name, default_logger_)
               /\ ManagerUnlock
               /\ Return(t)
          ELSE IF Lookup(name) # nullptr
          THEN /\ Returned(name, Lookup(name))
               /\ ManagerUnlock
               /\ Return(t)
          ELSE /\ Goto(t, "gl_create")
               /\ UNCHANGED <<frame, obtained, manager_mutex_>>
    /\ UNCHANGED <<pImpl_, loggers_, default_logger_, global_level_, output,
                   made, epoch, budget>>

\* the new logger left at its constructor's level
InitialLevelDefault == INFO

\* the level GetLogger gives the logger it creates: impl.global_level_
InitialLevel == global_level_

\* auto logger = std::make_shared<Logger>(name); logger->SetLevel(...)
GetLoggerCreate(t) ==
    /\ pc[t] = "gl_create"
    /\ pImpl_' = Append(pImpl_, [NewLogger(frame[t].name) EXCEPT
                                    !.current_level_ = InitialLevel])
    /\ frame' = [frame EXCEPT ![t].lg = Len(pImpl_) + 1]
    /\ Goto(t, "gl_insert")
    /\ UNCHANGED <<registry, output, history, budget>>

\* impl.loggers_[name] = logger; return logger;
GetLoggerInsert(t) ==
    /\ pc[t] = "gl_insert"
    /\ loggers_' = [loggers_ EXCEPT ![frame[t].name] = frame[t].lg]
    /\ Returned(frame[t].name, frame[t].lg)
    /\ ManagerUnlock
    /\ Return(t)
    /\ UNCHANGED <<pImpl_, default_logger_, global_level_, output, made,
                   epoch, budget>>

(* -------------------- LoggerManager::SetDefaultLogger ------------------ *)
\* the pointers application code holds: nullptr, the loggers it constructed
\* and those GetLogger returned
Handles ==
    {nullptr} \cup made \cup {obtained[i][2] : i \in DOMAIN obtained}

\* the application constructs a Logger of its own
MakeLogger(t, name) ==
    /\ pc[t] = "idle"
    /\ Cardinality(made) < MaxMade
    /\ pImpl_' = Append(pImpl_, NewLogger(name))
    /\ made' = made \cup {Len(pImpl_) + 1}
    /\ UNCHANGED <<pc, frame, registry, output, obtained, epoch, budget>>

SetDefaultLoggerCall(t, logger) ==
    /\ pc[t] = "idle"
    /\ CountRegistry
    /\ Goto(t, "sd_lock")
    /\ frame' = [frame EXCEPT ![t] = [lg |-> logger]]
    /\ UNCHANGED <<pImpl_, registry, output, history>>

\* a SetDefaultLogger that returns without the assignment
SetDefaultLoggerDropped(t) ==
    /\ pc[t] = "sd_store"
    /\ manager_mutex_' = NoThread
    /\ pc' = [pc EXCEPT ![t] = "idle"]
    /\ frame' = [frame EXCEPT ![t] = [lg |-> nullptr]]
    /\ UNCHANGED <<pImpl_, loggers_, default_logger_, global_level_, output,
                   history, budget>>

SetDefaultLoggerLock(t) ==
    /\ pc[t] = "sd_lock"
    /\ CanLock(manager_mutex_)
    /\ manager_mutex_' = t
    /\ Goto(t, "sd_store")
    /\ UNCHANGED <<pImpl_, loggers_, default_logger_, global_level_, frame,
                   output, history, budget>>

\* impl.default_logger_ = logger;
SetDefaultLoggerStore(t) ==
    /\ pc[t] = "sd_store"
    /\ default_logger_' = frame[t].lg
    /\ epoch' = epoch + 1
    /\ ManagerUnlock
    /\ Return(t)
    /\ UNCHANGED <<pImpl_, loggers_, global_level_, output, obtained, made,
                   budget>>

(* --------------------- LoggerManager::SetGlobalLevel ------------------- *)
SetGlobalLevelCall(t, level) ==
    /\ pc[t] = "idle"
    /\ CountRegistry
    /\ Goto(t, "sg_lock")
    /\ frame' = [frame EXCEPT ![t] =
                    [lg |-> nullptr, level |-> level, todo |-> {}]]
    /\ UNCHANGED <<pImpl_, registry, output, history>>

SetGlobalLevelLock(t) ==
    /\ pc[t] = "sg_lock"
    /\ CanLock(manager_mutex_)
    /\ manager_mutex_' = t
    /\ Goto(t, "sg_default")
    /\ UNCHANGED <<pImpl_, loggers_, default_logger_, global_level_, frame,
                   output, history, budget>>

\* a loop over no entry
RegisteredNone == {}

\* the entries of impl.loggers_ the range-for visits
Registered == {n \in Names : loggers_[n] # nullptr}

\* impl.global_level_ = level;
\* if (impl.default_logger_) impl.default_logger_->SetLevel(level);
SetGlobalLevelDefault(t) ==
    /\ pc[t] = "sg_default"
    /\ global_level_' = frame[t].level
    /\ IF default_logger_ # nullptr
       THEN pImpl_' = [pImpl_ EXCEPT ![default_logger_].current_level_ =
                          frame[t].level]
       ELSE UNCHANGED pImpl_
    /\ frame' = [frame EXCEPT ![t].todo = Registered]
    /\ Goto(t, "sg_loop")
    /\ UNCHANGED <<loggers_, default_logger_, manager_mutex_, output,
                   history, budget>>

\* for (auto& [name, logger] : impl.loggers_) logger->SetLevel(level);
\* an unordered_map is visited in no particular order
SetGlobalLevelLoop(t) ==
    /\ pc[t] = "sg_loop"
    /\ IF frame[t].todo = {}
       THEN /\ ManagerUnlock
            /\ Return(t)
            /\ UNCHANGED pImpl_
       ELSE /\ \E n \in frame[t].todo :
                 /\ pImpl_' = [pImpl_ EXCEPT ![loggers_[n]].current_level_ =
                                  frame[t].level]
                 /\ frame' = [frame EXCEPT ![t].todo = @ \ {n}]
            /\ UNCHANGED <<pc, manager_mutex_>>
    /\ UNCHANGED <<loggers_, default_logger_, global_level_, output, history,
                   budget>>

\* the steps inside the LoggerManager member functions
RegistryStep(t) ==
    \/ GetLoggerLock(t)
    \/ GetLoggerFind(t)
    \/ GetLoggerCreate(t)
    \/ GetLoggerInsert(t)
    \/ SetDefaultLoggerLock(t)
    \/ SetDefaultLoggerStore(t)
    \/ SetGlobalLevelLock(t)
    \/ SetGlobalLevelDefault(t)
    \/ SetGlobalLevelLoop(t)

\* the loggers a caller can call SetLevel on
Loggers == Handles \ {nullptr}

(* ---------------- threads using the registry concurrently -------------- *)
RegistryCall(t) ==
    \/ \E name \in Names : GetLoggerCall(t, name)
    \/ \E logger \in Handles : SetDefaultLoggerCall(t, logger)
    \/ \E level \in {DEBUG, WARN} : SetGlobalLevelCall(t, level)
    \/ MakeLogger(t, S_app)
    \/ \E lg \in Loggers : Budget /\ SetLevel(t, lg, ERROR)

NextRegistry ==
    \E t \in Threads :
        \/ RegistryCall(t) /\ UNCHANGED observed
        \/ RegistryStep(t)

SpecRegistry == Init /\ [][NextRegistry]_vars

(* ------------------- one caller using the registry --------------------- *)
NextRegistrySeq ==
    \/ \E name \in Names :
          GetLoggerCall("t1", name) /\ Observe([op |-> "GetLogger"])
    \/ \E logger \in Handles :
          /\ SetDefaultLoggerCall("t1", logger)
          /\ Observe([op |-> "SetDefaultLogger", logger |-> logger])
    \/ \E level \in {DEBUG, INFO, WARN} :
          /\ SetGlobalLevelCall("t1", level)
          /\ Observe([op |-> "SetGlobalLevel", level |-> level])
    \/ \E name \in {Empty, S_app} :
          MakeLogger("t1", name) /\ UNCHANGED observed
    \/ \E lg \in Loggers, level \in {TRACE, ERROR} :
          /\ Budget
          /\ SetLevel("t1", lg, level)
          /\ Observe([op |-> "SetLevel", lg |-> lg, level |-> level])
    \/ RegistryStep("t1")

SpecRegistrySeq == Init /\ [][NextRegistrySeq]_vars

(* ------------- one caller logging to the registry's loggers ------------ *)
\* the steps inside Logger::Log of a logger that has no file open
LogStep(t) ==
    \/ LogCheck(t)
    \/ LogLock(t)
    \/ LogFormat(t)
    \/ LogSubst(t)
    \/ LogConsole(t)
    \/ LogConsoleEndl(t)
    \/ LogFile(t)

NextLevel ==
    \/ \E name \in {Empty, S_app} :
          GetLoggerCall("t1", name) /\ Observe([op |-> "GetLogger"])
    \/ \E logger \in Handles :
          /\ SetDefaultLoggerCall("t1", logger)
          /\ Observe([op |-> "SetDefaultLogger", logger |-> logger])
    \/ \E level \in {DEBUG, WARN} :
          /\ SetGlobalLevelCall("t1", level)
          /\ Observe([op |-> "SetGlobalLevel", level |-> level])
    \/ MakeLogger("t1", S_app) /\ UNCHANGED observed
    \/ \E lg \in Loggers, level \in {TRACE, ERROR} :
          /\ calls.registry + calls.logger < MaxCalls
          /\ SetLevel("t1", lg, level)
          /\ Observe([op |-> "SetLevel", lg |-> lg, level |-> level])
    \/ \E lg \in Loggers, level \in {DEBUG, WARN} :
          /\ calls.registry + calls.logger < MaxCalls
          /\ LogCall("t1", lg, level, <<"a">>)
          /\ Observe([op |-> "Log", level |-> level, message |-> <<"a">>])
    \/ RegistryStep("t1")
    \/ LogStep("t1")

SpecLevel == Init /\ [][NextLevel]_vars

(* ------- threads calling GetLogger and SetGlobalLevel concurrently ----- *)
GlobalStep(t) ==
    \/ GetLoggerLock(t)
    \/ GetLoggerFind(t)
    \/ GetLoggerCreate(t)
    \/ GetLoggerInsert(t)
    \/ SetGlobalLevelLock(t)
    \/ SetGlobalLevelDefault(t)
    \/ SetGlobalLevelLoop(t)

NextGlobal ==
    \E t \in Threads :
        \/ \E name \in Names : GetLoggerCall(t, name) /\ UNCHANGED observed
        \/ \E level \in {DEBUG, WARN} :
              SetGlobalLevelCall(t, level) /\ UNCHANGED observed
        \/ GlobalStep(t)

SpecGlobal == Init /\ [][NextGlobal]_vars

(* --------- threads using the registry and its loggers concurrently ----- *)
\* the steps inside the member functions a thread calls here
ThreadStep(t) ==
    \/ RegistryStep(t)
    \/ LogStep(t)
    \/ LogFileEndl(t)
    \/ FlushLock(t)
    \/ FlushBody(t)
    \/ SetOutputFileLock(t)
    \/ SetOutputFileClose(t)
    \/ SetOutputFileOpen(t)

ThreadCall(t) ==
    \/ \E name \in {Empty, S_app} : GetLoggerCall(t, name)
    \/ \E logger \in Handles : SetDefaultLoggerCall(t, logger)
    \/ SetGlobalLevelCall(t, WARN)
    \/ \E lg \in Loggers : Budget /\ LogCall(t, lg, INFO, <<"a">>)
    \/ \E lg \in Loggers : FlushCall(t, lg)
    \/ \E lg \in Loggers : Budget /\ SetOutputFileCall(t, lg, X_log)

NextThreads ==
    \E t \in Threads :
        \/ ThreadCall(t) /\ UNCHANGED observed
        \/ ThreadStep(t)

\* a thread inside a call is scheduled again, and a thread that waits for a
\* mutex which is free again and again gets it
SpecThreads ==
    /\ Init
    /\ [][NextThreads]_vars
    /\ \A t \in Threads : SF_vars(ThreadStep(t))

(* ------------------- LoggerManager::ParseLogLevel ---------------------- *)
Upper ==
    <<"A", "B", "C", "D", "E", "F", "G", "H", "I", "J", "K", "L", "M",
      "N", "O", "P", "Q", "R", "S", "T", "U", "V", "W", "X", "Y", "Z">>
Lower ==
    <<"a", "b", "c", "d", "e", "f", "g", "h", "i", "j", "k", "l", "m",
      "n", "o", "p", "q", "r", "s", "t", "u", "v", "w", "x", "y", "z">>

\* a tolower that changes nothing
ToLowerNothing(c) == c

\* ::tolower in the "C" locale, which the program never leaves
ToLower(c) ==
    IF \E i \in DOMAIN Upper : Upper[i] = c
    THEN Lower[CHOOSE i \in DOMAIN Upper : Upper[i] = c]
    ELSE c

ToUpper(c) ==
    IF \E i \in DOMAIN Lower : Lower[i] = c
    THEN Upper[CHOOSE i \in DOMAIN Lower : Lower[i] = c]
    ELSE c

W_trace == <<"t", "r", "a", "c", "e">>
W_debug == <<"d", "e", "b", "u", "g">>
W_info == <<"i", "n", "f", "o">>
W_warn == <<"w", "a", "r", "n">>
W_warning == <<"w", "a", "r", "n", "i", "n", "g">>
W_error == <<"e", "r", "r", "o", "r">>
W_fatal == <<"f", "a", "t", "a", "l">>

\* a comparison of the argument as it was given
ParseLogLevelExact(level) ==
    CASE level = W_trace -> TRACE
      [] level = W_debug -> DEBUG
      [] level = W_info -> INFO
      [] level = W_warn \/ level = W_warning -> WARN
      [] level = W_error -> ERROR
      [] level = W_fatal -> FATAL
      [] OTHER -> INFO

\* std::transform(..., ::tolower), then the chain of comparisons
ParseLogLevel(level) ==
    LET lower_level == [i \in 1..Len(level) |-> ToLower(level[i])]
    IN CASE lower_level = W_trace -> TRACE
         [] lower_level = W_debug -> DEBUG
         [] lower_level = W_info -> INFO
         [] lower_level = W_warn \/ lower_level = W_warning -> WARN
         [] lower_level = W_error -> ERROR
         [] lower_level = W_fatal -> FATAL
         [] OTHER -> INFO

\* every casing of a word
Casings(w) ==
    {[i \in 1..Len(w) |-> IF i \in S THEN ToUpper(w[i]) ELSE w[i]] :
        S \in SUBSET (1..Len(w))}

LevelWords == {W_trace, W_debug, W_info, W_warn, W_warning, W_error, W_fatal}

\* strings that are no casing of a level word
OtherWords ==
    {Empty, <<"x">>, <<"2">>, <<" ">>,
     <<"i", "n", "f">>, <<"i", "n", "f", "o", "s">>, <<" ", "i", "n", "f", "o">>,
     <<"W", "A", "R", "N", " ">>, <<"w", "a", "r", "n", "i", "n">>,
     <<"e", "r", "r">>, <<"E", "R", "R", "O", "R", "S">>,
     <<"c", "r", "i", "t", "i", "c", "a", "l">>, <<"o", "f", "f">>,
     <<"U", "N", "K", "N", "O", "W", "N">>, <<"t", "r", "a", "c", "e", "!">>}

\* a level outside the enumeration, as a cast can produce
BadLevel == FATAL + 1

\* a call takes its string from text and its level from level
ParseInputs ==
    {[op |-> "ParseLogLevel", text |-> w, level |-> INFO] :
        w \in UNION {Casings(w) : w \in LevelWords} \cup OtherWords}
    \cup {[op |-> "LogLevelToString", text |-> Empty, level |-> l] :
             l \in LogLevel \cup {BadLevel}}

InitParse ==
    /\ arg \in ParseInputs
    /\ ret = NoRet
    /\ Started

\* LoggerManager::ParseLogLevel(level)
ParseLogLevelCall ==
    /\ arg.op = "ParseLogLevel"
    /\ ret = NoRet
    /\ ret' = <<ParseLogLevel(arg.text)>>
    /\ UNCHANGED <<arg, program>>

\* LoggerManager::LogLevelToString(level) and ParseLogLevel on its result
LogLevelToStringCall ==
    /\ arg.op = "LogLevelToString"
    /\ ret = NoRet
    /\ ret' = <<LogLevelToString(arg.level),
                ParseLogLevel(LogLevelToString(arg.level))>>
    /\ UNCHANGED <<arg, program>>

NextParse == ParseLogLevelCall \/ LogLevelToStringCall

SpecParse == InitParse /\ [][NextParse]_vars

(* --------------------------- InferenceConfig --------------------------- *)
S_localhost == <<"l", "o", "c", "a", "l", "h", "o", "s", "t">>
S_127 == <<"1", "2", "7", ".", "0", ".", "0", ".", "1">>
S_http == <<"h", "t", "t", "p">>
S_grpc == <<"g", "r", "p", "c">>
S_ftp == <<"f", "t", "p">>
S_HTTP == <<"H", "T", "T", "P">>
S_none == <<"n", "o", "n", "e">>
S_cuda == <<"c", "u", "d", "a">>
S_yolo == <<"y", "o", "l", "o">>
S_models_foo == <<"m", "o", "d", "e", "l", "s", "/", "f", "o", "o">>
S_models_bar == <<"m", "o", "d", "e", "l", "s", "\\", "b", "a", "r">>
S_video == <<"v", ".", "m", "p", "4">>
S_labels == <<"c", ".", "t", "x", "t">>

\* a default-constructed InferenceConfig: the member initialisers.  The two
\* thresholds are counted in hundredths, custom_params_ is the set of its
\* <<key, value>> pairs.
InferenceConfig ==
    [server_address_ |-> S_localhost,
     port_ |-> 8000,
     protocol_ |-> S_http,
     verbose_ |-> FALSE,
     model_name_ |-> Empty,
     model_version_ |-> Empty,
     model_type_ |-> Empty,
     input_sizes_ |-> <<>>,
     source_ |-> Empty,
     labels_file_ |-> Empty,
     batch_size_ |-> 1,
     show_frame_ |-> FALSE,
     write_frame_ |-> TRUE,
     confidence_threshold_ |-> 50,
     nms_threshold_ |-> 40,
     num_threads_ |-> 1,
     enable_async_ |-> FALSE,
     shared_memory_type_ |-> S_none,
     cuda_device_id_ |-> 0,
     log_level_ |-> W_info,
     log_file_ |-> Empty,
     custom_params_ |-> {}]

\* InferenceConfig::IsModelNameAPath
IsModelNameAPath(config) ==
    LET model_name == config.model_name_
    IN \/ \E i \in DOMAIN model_name : model_name[i] = "/"
       \/ \E i \in DOMAIN model_name : model_name[i] = "\\"

\* InferenceConfig::IsValid
IsValid(config) ==
    /\ config.server_address_ # Empty
    /\ config.model_name_ # Empty
    /\ config.model_type_ # Empty
    /\ config.source_ # Empty
    /\ config.port_ > 0 /\ config.port_ <= 65535
    /\ ~IsModelNameAPath(config)

\* DefaultConfigLoader::CreateDefault: the default instance
CreateDefault == InferenceConfig

\* DefaultConfigValidator::Validate: the validity invariant of a
\* configuration
Validate(config) ==
    /\ config.server_address_ # Empty
    /\ config.model_name_ # Empty
    /\ ~IsModelNameAPath(config)
    /\ config.model_type_ # Empty
    /\ config.source_ # Empty
    /\ config.port_ >= 1 /\ config.port_ <= 65535
    /\ config.protocol_ \in {S_http, S_grpc}

\* ConfigManager::ValidateConfig
ValidateConfig(config) == Validate(config)

(* ---------------- InferenceConfig::GetValidationErrors ----------------- *)
\* "Server address is required"
E_address ==
    <<"S", "e", "r", "v", "e", "r", " ", "a", "d", "d", "r", "e", "s", "s",
      " ", "i", "s", " ", "r", "e", "q", "u", "i", "r", "e", "d">>
\* "Model name is required"
E_name ==
    <<"M", "o", "d", "e", "l", " ", "n", "a", "m", "e", " ", "i", "s", " ",
      "r", "e", "q", "u", "i", "r", "e", "d">>
\* "Model name must not contain path separators (/ or \). Use only the model repository name."
E_path ==
    <<"M", "o", "d", "e", "l", " ", "n", "a", "m", "e", " ", "m", "u", "s",
      "t", " ", "n", "o", "t", " ", "c", "o", "n", "t", "a", "i", "n", " ",
      "p", "a", "t", "h", " ", "s", "e", "p", "a", "r", "a", "t", "o", "r",
      "s", " ", "(", "/", " ", "o", "r", " ", "\\", ")", ".", " ", "U",
      "s", "e", " ", "o", "n", "l", "y", " ", "t", "h", "e", " ", "m", "o",
      "d", "e", "l", " ", "r", "e", "p", "o", "s", "i", "t", "o", "r", "y",
      " ", "n", "a", "m", "e", ".">>
\* "Model type is required"
E_type ==
    <<"M", "o", "d", "e", "l", " ", "t", "y", "p", "e", " ", "i", "s", " ",
      "r", "e", "q", "u", "i", "r", "e", "d">>
\* "Source is required"
E_source ==
    <<"S", "o", "u", "r", "c", "e", " ", "i", "s", " ", "r", "e", "q", "u",
      "i", "r", "e", "d">>
\* "Port must be between 1 and 65535"
E_port ==
    <<"P", "o", "r", "t", " ", "m", "u", "s", "t", " ", "b", "e", " ", "b",
      "e", "t", "w", "e", "e", "n", " ", "1", " ", "a", "n", "d", " ", "6",
      "5", "5", "3", "5">>
\* "Protocol must be 'http' or 'grpc'"
E_protocol ==
    <<"P", "r", "o", "t", "o", "c", "o", "l", " ", "m", "u", "s", "t", " ",
      "b", "e", " ", "'", "h", "t", "t", "p", "'", " ", "o", "r", " ", "'",
      "g", "r", "p", "c", "'">>

\* errors.emplace_back(message) when the test of a rule is true
Check(errors, failed, message) ==
    IF failed THEN Append(errors, message) ELSE errors

\* the loop that builds the result from the errors, from errors[i] on
RECURSIVE Joined(_, _, _)
Joined(errors, i, result) ==
    IF i > Len(errors) THEN result
    ELSE Joined(errors, i + 1,
                (IF result # Empty THEN result \o <<";", " ">> ELSE result)
                    \o errors[i])

\* InferenceConfig::GetValidationErrors
GetValidationErrors(config) ==
    LET e1 == Check(<<>>, config.server_address_ = Empty, E_address)
        e2 == Check(e1, config.model_name_ = Empty, E_name)
        e3 == Check(e2, IsModelNameAPath(config), E_path)
        e4 == Check(e3, config.model_type_ = Empty, E_type)
        e5 == Check(e4, config.source_ = Empty, E_source)
        e6 == Check(e5, config.port_ <= 0 \/ config.port_ > 65535, E_port)
        errors == Check(e6, config.protocol_ # S_http
                                /\ config.protocol_ # S_grpc, E_protocol)
    IN Joined(errors, 1, Empty)

(* ------------ one caller building and validating a configuration ------- *)
ServerAddresses == {Empty, S_localhost, S_127}
Ports == {0 - 1, 0, 1, 9000, 65535, 65536}
Protocols == {Empty, S_grpc, S_ftp, S_HTTP}
ModelNames == {S_yolo, S_models_foo, S_models_bar}
BatchSizes == {0, 4}

\* the configuration the caller holds
TheConfig == [op |-> "config", config |-> CreateDefault]

InitConfig ==
    /\ arg = TheConfig
    /\ ret = NoRet
    /\ Started

\* a setter stores its argument in one member
Set(field, value) ==
    /\ ret = NoRet
    /\ arg' = [arg EXCEPT !.config[field] = value]
    /\ UNCHANGED <<ret, program>>

SetServerAddress == \E address \in ServerAddresses : Set("server_address_", address)
SetPort == \E port \in Ports : Set("port_", port)
SetProtocol == \E protocol \in Protocols : Set("protocol_", protocol)
SetModelName == \E name \in ModelNames : Set("model_name_", name)
SetModelType == Set("model_type_", S_yolo)
SetSource == Set("source_", S_video)
SetBatchSize == \E size \in BatchSizes : Set("batch_size_", size)

\* config.IsValid()
IsValidCall ==
    /\ ret = NoRet
    /\ ret' = <<"IsValid", IsValid(arg.config)>>
    /\ UNCHANGED <<arg, program>>

\* manager.ValidateConfig(config)
ValidateConfigCall ==
    /\ ret = NoRet
    /\ ret' = <<"ValidateConfig", ValidateConfig(arg.config)>>
    /\ UNCHANGED <<arg, program>>

\* config.IsValid(), then config.GetValidationErrors()
GetValidationErrorsCall ==
    /\ ret = NoRet
    /\ ret' = <<"GetValidationErrors", IsValid(arg.config),
                GetValidationErrors(arg.config)>>
    /\ UNCHANGED <<arg, program>>

NextConfig ==
    \/ SetServerAddress
    \/ SetPort
    \/ SetProtocol
    \/ SetModelName
    \/ SetModelType
    \/ SetSource
    \/ SetBatchSize
    \/ IsValidCall
    \/ ValidateConfigCall
    \/ GetValidationErrorsCall

SpecConfig == InitConfig /\ [][NextConfig]_vars

(* ------------------------- ConfigManager::Merge ------------------------ *)
\* ConfigManager::Merge(base, override): a new configuration, base's values
\* copied into it, the override's values stored over them
Merge(base, override) ==
    LET merged == InferenceConfig
        copied ==
            [merged EXCEPT
                !.server_address_ = base.server_address_,
                !.port_ = base.port_,
                !.protocol_ = base.protocol_,
                !.model_name_ = base.model_name_,
                !.model_type_ = base.model_type_,
                !.source_ = base.source_,
                !.labels_file_ = base.labels_file_,
                !.batch_size_ = base.batch_size_,
                !.show_frame_ = base.show_frame_,
                !.write_frame_ = base.write_frame_,
                !.confidence_threshold_ = base.confidence_threshold_,
                !.nms_threshold_ = base.nms_threshold_,
                !.verbose_ = base.verbose_,
                !.shared_memory_type_ = base.shared_memory_type_,
                !.cuda_device_id_ = base.cuda_device_id_,
                !.log_level_ = base.log_level_,
                !.log_file_ = base.log_file_]
    IN [copied EXCEPT
           !.server_address_ =
               IF override.server_address_ # Empty
                  /\ override.server_address_ # S_localhost
               THEN override.server_address_ ELSE @,
           !.port_ = IF override.port_ # 8000 THEN override.port_ ELSE @,
           !.protocol_ =
               IF override.protocol_ # Empty /\ override.protocol_ # S_http
               THEN override.protocol_ ELSE @,
           !.model_name_ =
               IF override.model_name_ # Empty
               THEN override.model_name_ ELSE @,
           !.model_type_ =
               IF override.model_type_ # Empty
               THEN override.model_type_ ELSE @,
           !.source_ =
               IF override.source_ # Empty THEN override.source_ ELSE @,
           !.labels_file_ =
               IF override.labels_file_ # Empty
               THEN override.labels_file_ ELSE @,
           !.batch_size_ =
               IF override.batch_size_ # 1 THEN override.batch_size_ ELSE @,
           !.show_frame_ = override.show_frame_,
           !.write_frame_ = override.write_frame_,
           !.verbose_ = override.verbose_]

Fields == DOMAIN InferenceConfig

\* the members of type bool
BoolFields == {"verbose_", "show_frame_", "write_frame_", "enable_async_"}

\* values a caller stores in a field, none of them the field's default
Other ==
    [server_address_ |-> {Empty, S_127},
     port_ |-> {0, 9000},
     protocol_ |-> {Empty, S_grpc},
     verbose_ |-> {TRUE},
     model_name_ |-> {S_yolo},
     model_version_ |-> {<<"2">>},
     model_type_ |-> {S_yolo},
     input_sizes_ |-> {<<<<3, 4, 4>>>>},
     source_ |-> {S_video},
     labels_file_ |-> {S_labels},
     batch_size_ |-> {0, 4},
     show_frame_ |-> {TRUE},
     write_frame_ |-> {FALSE},
     confidence_threshold_ |-> {90},
     nms_threshold_ |-> {30},
     num_threads_ |-> {4},
     enable_async_ |-> {TRUE},
     shared_memory_type_ |-> {S_cuda},
     cuda_device_id_ |-> {1},
     log_level_ |-> {W_debug},
     log_file_ |-> {X_log},
     custom_params_ |-> {{<<<<"k">>, <<"v">>>>}}]

\* the default configuration, and the configurations with one field set
Configs ==
    {InferenceConfig}
    \cup UNION {{[InferenceConfig EXCEPT ![field] = value] :
                    value \in Other[field]} : field \in Fields}

MergeInputs ==
    {[op |-> "Merge", base |-> base, override |-> override] :
        base \in Configs, override \in Configs}

InitMerge ==
    /\ arg \in MergeInputs
    /\ ret = NoRet
    /\ Started

\* manager.Merge(base, override)
MergeCall ==
    /\ ret = NoRet
    /\ ret' = <<Merge(arg.base, arg.override)>>
    /\ UNCHANGED <<arg, program>>

NextMerge == MergeCall

SpecMerge == InitMerge /\ [][NextMerge]_vars

(* ----------------- StringUtils::Split / StringUtils::Join --------------- *)
\* std::string::npos; positions in a string count from 0
npos == 0 - 1

\* str.find(delimiter, start), for a delimiter that is not empty
FindFrom(str, delimiter, start) ==
    LET hits == {end \in start..(Len(str) - Len(delimiter)) :
                    SubSeq(str, end + 1, end + Len(delimiter)) = delimiter}
    IN IF hits = {} THEN npos
       ELSE CHOOSE end \in hits : \A other \in hits : end <= other

\* str.substr(start, count) and str.substr(start)
Substr(str, start, count) == SubSeq(str, start + 1, start + count)
SubstrFrom(str, start) == SubSeq(str, start + 1, Len(str))

\* a search that resumes one character after the delimiter's first
AfterFirstChar(end, delimiter) == end + 1

\* start = end + delimiter.length()
After(end, delimiter) == end + Len(delimiter)

\* the loop of Split(str, delimiter) from position start on, then the push
\* of the rest
RECURSIVE SplitFrom(_, _, _, _)
SplitFrom(str, delimiter, start, tokens) ==
    LET end == FindFrom(str, delimiter, start)
    IN IF end # npos
       THEN SplitFrom(str, delimiter, After(end, delimiter),
                      Append(tokens, Substr(str, start, end - start)))
       ELSE Append(tokens, SubstrFrom(str, start))

\* StringUtils::Split(const std::string&, const std::string&)
Split(str, delimiter) == SplitFrom(str, delimiter, 0, <<>>)

\* the loop of Join from index i on (indices count from 0)
RECURSIVE JoinFrom(_, _, _, _)
JoinFrom(strings, delimiter, i, result) ==
    IF i < Len(strings)
    THEN JoinFrom(strings, delimiter, i + 1,
                  result \o delimiter \o strings[i + 1])
    ELSE result

\* StringUtils::Join
Join(strings, delimiter) ==
    IF strings = <<>> THEN Empty
    ELSE JoinFrom(strings, delimiter, 1, strings[1])

MaxPart == 2
MaxParts == 3
MaxDelimiter == 2
Chars == {"a", ":"}

\* the strings of at most n characters
StringsUpTo(n) == UNION {[1..k -> Chars] : k \in 0..n}

\* a call joins parts with delimiter, then splits the result by it
SplitInputs ==
    {[op |-> "JoinSplit", parts |-> parts, delimiter |-> delimiter] :
        parts \in UNION {[1..k -> StringsUpTo(MaxPart)] : k \in 1..MaxParts},
        delimiter \in StringsUpTo(MaxDelimiter) \ {Empty}}

InitSplit ==
    /\ arg \in SplitInputs
    /\ ret = NoRet
    /\ Started

\* StringUtils::Split(StringUtils::Join(parts, d), d)
JoinSplitCall ==
    /\ ret = NoRet
    /\ ret' = <<Join(arg.parts, arg.delimiter),
                Split(Join(arg.parts, arg.delimiter), arg.delimiter)>>
    /\ UNCHANGED <<arg, program>>

NextSplit == JoinSplitCall

SpecSplit == InitSplit /\ [][NextSplit]_vars

(* ----------------------- MemoryUtils::FormatBytes ---------------------- *)
\* A size_t is written in base 1024, least significant digit first, in
\* SizeDigits digits of which the last is below 16 (64 bits).  A double is
\* written the same way, as the digits of its whole part and, most
\* significant first, the digits of its fraction: dividing by 1024.0 moves
\* one digit across the point and is exact.
Base == 1024
SizeDigits == 7
Mantissa == 53

units == <<<<"B">>, <<"K", "B">>, <<"M", "B">>, <<"G", "B">>, <<"T", "B">>>>

\* the number of binary digits of a base-1024 digit
BitLength(digit) ==
    CHOOSE b \in 0..10 : digit < 2^b /\ (b = 0 \/ digit >= 2^(b - 1))

\* the place of the most significant digit that is not 0 (1 for zero)
Top(n) ==
    IF \A i \in DOMAIN n : n[i] = 0 THEN 1
    ELSE CHOOSE i \in DOMAIN n :
             n[i] # 0 /\ \A j \in DOMAIN n : j > i => n[j] = 0

RECURSIVE Carry(_, _, _)
Carry(n, i, carry) ==
    IF carry = 0 \/ i > Len(n) THEN n
    ELSE LET x == n[i] + carry
         IN Carry([n EXCEPT ![i] = x % Base], i + 1, x \div Base)

\* static_cast<double>(bytes): the nearest number of 53 binary digits, the
\* even one of two that are equally near
ToDouble(n) ==
    LET drop == 10 * (Top(n) - 1) + BitLength(n[Top(n)]) - Mantissa
    IN IF drop <= 0 THEN n
       ELSE LET q == 2^drop
                v == n[1] + Base * n[2]
                r == v % q
                kept == v - r
                up == 2 * r > q \/ (2 * r = q /\ (kept \div q) % 2 = 1)
                w == IF up THEN kept + q ELSE kept
            IN Carry([n EXCEPT ![1] = w % Base,
                               ![2] = (w \div Base) % Base],
                     3, w \div (Base * Base))

\* size > 1024.0
Above1024(size) ==
    /\ \E i \in 2..Len(size.whole) : size.whole[i] # 0
    /\ \/ Top(size.whole) > 2
       \/ size.whole[2] > 1
       \/ size.whole[1] > 0
       \/ \E i \in DOMAIN size.fraction : size.fraction[i] # 0

\* size >= 1024.0
AtLeast1024(size) == \E i \in 2..Len(size.whole) : size.whole[i] # 0

\* size /= 1024.0
Divided(size) ==
    [whole |-> Tail(size.whole) \o <<0>>,
     fraction |-> <<size.whole[1]>> \o size.fraction]

\* the while loop of FormatBytes
RECURSIVE Scale(_, _)
Scale(size, unit_index) ==
    IF AtLeast1024(size) /\ unit_index < 4
    THEN Scale(Divided(size), unit_index + 1)
    ELSE [size |-> size, unit_index |-> unit_index]

RECURSIVE Whole(_)
Whole(digits) ==
    IF digits = <<>> THEN 0 ELSE digits[1] + Base * Whole(Tail(digits))

\* a fraction times 100: the whole part, and the digits of the fraction left
RECURSIVE Times100(_)
Times100(fraction) ==
    IF fraction = <<>> THEN [carry |-> 0, rest |-> <<>>]
    ELSE LET low == Times100(Tail(fraction))
             x == fraction[1] * 100 + low.carry
         IN [carry |-> x \div Base, rest |-> <<x % Base>> \o low.rest]

\* size in hundredths, rounded to the nearest, to the even one of two that
\* are equally near: the number "%.2f" prints
Hundredths(size) ==
    LET t == Times100(size.fraction)
        kept == Whole(size.whole) * 100 + t.carry
        half == Base \div 2
        low == \E i \in 2..Len(t.rest) : t.rest[i] # 0
        above == t.rest # <<>>
                 /\ (t.rest[1] > half \/ (t.rest[1] = half /\ low))
        tie == t.rest # <<>> /\ t.rest[1] = half /\ ~low
    IN IF above \/ (tie /\ kept % 2 = 1) THEN kept + 1 ELSE kept

Digit == <<"0", "1", "2", "3", "4", "5", "6", "7", "8", "9">>

RECURSIVE Decimal(_)
Decimal(n) ==
    IF n < 10 THEN <<Digit[n + 1]>>
    ELSE Append(Decimal(n \div 10), Digit[(n % 10) + 1])

\* snprintf(buffer, sizeof(buffer), "%.2f %s", size, unit); the longest text
\* has 14 characters and fits the buffer
Snprintf(size, unit) ==
    LET h == Hundredths(size)
    IN Decimal(h \div 100)
       \o <<".", Digit[((h \div 10) % 10) + 1], Digit[(h % 10) + 1], " ">>
       \o unit

\* MemoryUtils::FormatBytes
FormatBytes(bytes) ==
    LET scaled == Scale([whole |-> ToDouble(bytes), fraction |-> <<>>], 0)
    IN Snprintf(scaled.size, units[scaled.unit_index + 1])

\* the number with digit hi at place k + 1, mid below it and lo at place 1
Number(hi, k, mid, lo) ==
    [i \in 1..SizeDigits |->
        IF i = k + 1 THEN hi
        ELSE IF i = k THEN mid
        ELSE IF i = 1 THEN lo
        ELSE 0]

\* 1024^k and 1024^k - 1
Power(k) == Number(1, k, 0, 0)
BelowPower(k) == [i \in 1..SizeDigits |-> IF i <= k THEN Base - 1 ELSE 0]

\* 2^64 - 1
SizeMax == [i \in 1..SizeDigits |-> IF i < SizeDigits THEN Base - 1 ELSE 15]

Marks == {Power(k) : k \in 0..(SizeDigits - 1)}
         \cup {BelowPower(k) : k \in 0..(SizeDigits - 1)}
         \cup {SizeMax}

Sizes ==
    Marks
    \cup {Number(hi, k, mid, lo) :
             hi \in {1, 2, 8, 15}, k \in 0..(SizeDigits - 1),
             mid \in {0, 128, 384, 512, 1023}, lo \in {0, 1, 3, 1023}}
    \cup {Number(1023, k, mid, lo) :
             k \in 0..(SizeDigits - 2),
             mid \in {0, 327, 1018, 1023}, lo \in {0, 1023}}

\* a call formats bytes, a second call formats more
BytesInputs ==
    {[op |-> "FormatBytes", bytes |-> bytes, more |-> more] :
        bytes \in Sizes, more \in Marks}

InitBytes ==
    /\ arg \in BytesInputs
    /\ ret = NoRet
    /\ Started

\* MemoryUtils::FormatBytes(bytes), MemoryUtils::FormatBytes(more)
FormatBytesCall ==
    /\ ret = NoRet
    /\ ret' = <<FormatBytes(arg.bytes), FormatBytes(arg.more)>>
    /\ UNCHANGED <<arg, program>>

NextBytes == FormatBytesCall

SpecBytes == InitBytes /\ [][NextBytes]_vars

(* -------------------- Logger::Impl::FormatMessage calls ---------------- *)
MaxPieces == 3

Tokens == {TokTimestamp, TokLevel, TokName, TokMessage}

\* the pieces a pattern is written from: the tokens and plain text
Pieces == Tokens \cup {<<"x">>}

RECURSIVE Flatten(_)
Flatten(pieces) ==
    IF pieces = <<>> THEN Empty ELSE pieces[1] \o Flatten(Tail(pieces))

\* a logger's name is any string its creator chose, a message any string
FormatInputs ==
    {[op |-> "FormatMessage", pieces |-> pieces, timestamp_enabled |-> e,
      name |-> name, level |-> level, message |-> message] :
        pieces \in UNION {[1..k -> Pieces] : k \in 0..MaxPieces},
        e \in BOOLEAN,
        name \in {S_app, TokLevel, TokMessage},
        level \in {INFO, ERROR},
        message \in {<<"a">>, TokName}}

InitFormat ==
    /\ arg \in FormatInputs
    /\ ret = NoRet
    /\ Started

\* FormatMessage(level, message) of a logger with this name, pattern and
\* timestamp switch
FormatMessageCall ==
    /\ ret = NoRet
    /\ \E now \in TimeStamps :
          ret' = <<FormatMessage(Flatten(arg.pieces), arg.timestamp_enabled,
                                 arg.name, now, arg.level, arg.message)>>
    /\ UNCHANGED <<arg, program>>

NextFormat == FormatMessageCall

SpecFormat == InitFormat /\ [][NextFormat]_vars

(* ------------------- PerformanceUtils::FPSCounter ---------------------- *)
MaxWindow == 3
MaxUpdates == 4
MaxClock == 4
\* one tick of high_resolution_clock is half a millisecond here
TicksPerMs == 2

\* std::chrono::duration_cast<milliseconds>: towards zero
Milliseconds(duration) ==
    IF duration >= 0 THEN duration \div TicksPerMs
    ELSE 0 - ((0 - duration) \div TicksPerMs)

RECURSIVE GCD(_, _)
GCD(a, b) == IF b = 0 THEN a ELSE GCD(b, a % b)

\* the double n / d, d > 0, as a fraction in lowest terms
Quotient(n, d) == <<n \div GCD(n, d), d \div GCD(n, d)>>
Zero == <<0, 1>>

\* FPSCounter::FPSCounter(window_size): window_size time points at the epoch
FPSCounter(window_size) ==
    [window_size_ |-> window_size,
     timestamps_ |-> [i \in 0..(window_size - 1) |-> 0],
     current_index_ |-> 0,
     buffer_full_ |-> FALSE]

NextIndexNoWrap(counter) == counter.current_index_ + 1
\* (current_index_ + 1) % window_size_
NextIndex(counter) == (counter.current_index_ + 1) % counter.window_size_

\* FPSCounter::Update with now() read as `now`, window_size_ not 0
Update(counter, now) ==
    [counter EXCEPT !.timestamps_[counter.current_index_] = now,
                    !.current_index_ = NextIndex(counter),
                    !.buffer_full_ =
                        IF ~counter.buffer_full_ /\ NextIndex(counter) = 0
                        THEN TRUE ELSE @]

\* FPSCounter::GetCurrentFPS
GetCurrentFPS(counter) ==
    IF ~counter.buffer_full_ /\ counter.current_index_ < 2 THEN Zero
    ELSE LET count == IF counter.buffer_full_ THEN counter.window_size_
                      ELSE counter.current_index_
             prev_index == (counter.current_index_ - 1 + counter.window_size_)
                               % counter.window_size_
             start_index == (counter.current_index_ - count
                                 + counter.window_size_)
                                % counter.window_size_
             duration == counter.timestamps_[prev_index]
                             - counter.timestamps_[start_index]
             ms == Milliseconds(duration)
         IN IF ms > 0 THEN Quotient((count - 1) * 1000, ms) ELSE Zero

\* FPSCounter::Reset
ResetCounter(counter) ==
    [counter EXCEPT !.current_index_ = 0, !.buffer_full_ = FALSE]

(* ------------------- one caller using an FPSCounter -------------------- *)
\* the counter the caller holds, the clock, the time points Update has read
\* since construction or the last Reset, and the undefined operation the
\* program has executed, if any
TheCounter(window_size) ==
    [op |-> "FPSCounter", counter |-> FPSCounter(window_size), clock |-> 0,
     stamps |-> <<>>, fault |-> "none"]

InitFPS ==
    /\ arg \in {TheCounter(window_size) : window_size \in 0..MaxWindow}
    /\ ret = NoRet
    /\ Started

\* the clock does not run backwards between two reads
Readings == {now \in arg.clock..(arg.clock + TicksPerMs) : now <= MaxClock}

\* counter.Update()
UpdateCall ==
    /\ arg.fault = "none"
    /\ arg.counter.window_size_ # 0
    /\ Len(arg.stamps) < MaxUpdates
    /\ \E now \in Readings :
          arg' = [arg EXCEPT !.counter = Update(@, now),
                             !.clock = now,
                             !.stamps = Append(@, now)]
    /\ ret' = NoRet
    /\ UNCHANGED program

\* counter.Update() of a counter made with window size 0: timestamps_ is
\* empty and the remainder is taken by zero, which is undefined; whatever
\* index the program is left with, it is not followed further
UpdateNoWindow ==
    /\ arg.fault = "none"
    /\ arg.counter.window_size_ = 0
    /\ \E index \in 0..1 :
          arg' = [arg EXCEPT !.counter.current_index_ = index,
                             !.fault = "remainder by zero"]
    /\ ret' = NoRet
    /\ UNCHANGED program

\* counter.GetCurrentFPS()
GetCurrentFPSCall ==
    /\ arg.fault = "none"
    /\ ret' = <<"GetCurrentFPS", GetCurrentFPS(arg.counter)>>
    /\ UNCHANGED <<arg, program>>

\* counter.Reset()
ResetCounterCall ==
    /\ arg.fault = "none"
    /\ arg' = [arg EXCEPT !.counter = ResetCounter(@), !.stamps = <<>>]
    /\ ret' = NoRet
    /\ UNCHANGED program

NextFPS ==
    \/ UpdateCall
    \/ UpdateNoWindow
    \/ GetCurrentFPSCall
    \/ ResetCounterCall

SpecFPS == InitFPS /\ [][NextFPS]_vars

(* --------------------- PerformanceUtils::Timer ------------------------- *)
\* one tick of high_resolution_clock is half a microsecond here
TicksPerUs == 2

\* std::chrono::duration_cast<microseconds>: towards zero
Microseconds(duration) ==
    IF duration >= 0 THEN duration \div TicksPerUs
    ELSE 0 - ((0 - duration) \div TicksPerUs)

\* Timer::Reset with now() read as `now`
ResetTimer(timer, now) ==
    [start_time_ |-> now, end_time_ |-> now, is_running_ |-> FALSE]

\* Timer::Timer: is_running_{false}, then Reset()
Timer(now) == ResetTimer([is_running_ |-> FALSE], now)

\* Timer::Start
Start(timer, now) ==
    [timer EXCEPT !.start_time_ = now, !.is_running_ = TRUE]

StopAlways(timer, now) ==
    [timer EXCEPT !.end_time_ = now, !.is_running_ = FALSE]
\* Timer::Stop
Stop(timer, now) ==
    IF timer.is_running_
    THEN [timer EXCEPT !.end_time_ = now, !.is_running_ = FALSE]
    ELSE timer

\* Timer::GetElapsedMs: duration.count() / 1000.0
GetElapsedMs(timer, now) ==
    LET end == IF timer.is_running_ THEN now ELSE timer.end_time_
        duration == Microseconds(end - timer.start_time_)
    IN Quotient(duration, 1000)

(* ----------------------- one caller using a Timer ---------------------- *)
\* the timer the caller holds, the clock, and the readings the last Start
\* and the last Stop of a running timer took (both 0 after construction and
\* after Reset)
TheTimer ==
    [op |-> "Timer", timer |-> Timer(0), clock |-> 0, began |-> 0,
     ended |-> 0]

InitTimer ==
    /\ arg = TheTimer
    /\ ret = NoRet
    /\ Started

\* timer.Start()
StartCall ==
    /\ \E now \in Readings :
          arg' = [arg EXCEPT !.timer = Start(@, now), !.clock = now,
                             !.began = now]
    /\ ret' = NoRet
    /\ UNCHANGED program

\* timer.Stop()
StopCall ==
    /\ \E now \in Readings :
          arg' = [arg EXCEPT !.timer = Stop(@, now), !.clock = now,
                             !.ended = IF arg.timer.is_running_
                                       THEN now ELSE @]
    /\ ret' = NoRet
    /\ UNCHANGED program

\* timer.Reset()
ResetTimerCall ==
    /\ \E now \in Readings :
          arg' = [arg EXCEPT !.timer = ResetTimer(@, now), !.clock = now,
                             !.began = 0, !.ended = 0]
    /\ ret' = NoRet
    /\ UNCHANGED program

\* timer.GetElapsedMs()
GetElapsedMsCall ==
    /\ \E now \in Readings :
          /\ arg' = [arg EXCEPT !.clock = now]
          /\ ret' = <<"GetElapsedMs", GetElapsedMs(arg.timer, now)>>
    /\ UNCHANGED program

NextTimer ==
    \/ StartCall
    \/ StopCall
    \/ ResetTimerCall
    \/ GetElapsedMsCall

SpecTimer == InitTimer /\ [][NextTimer]_vars

(* ------------------------- StringUtils::Replace ------------------------ *)
MaxStr == 4
\* std::string::max_size() here: a longer string is a std::length_error; no
\* replacement of a non-empty from in these inputs is longer
MaxResult == MaxStr * MaxDelimiter

\* Replace(str, from, to) after `result = str; start = 0`, about to evaluate
\* the loop condition
ReplaceInputs ==
    {[op |-> "Replace", str |-> str, from |-> from, to |-> to,
      result |-> str, start |-> 0, pc |-> "find"] :
        str \in StringsUpTo(MaxStr),
        from \in StringsUpTo(MaxDelimiter),
        to \in StringsUpTo(MaxDelimiter)}

InitReplace ==
    /\ arg \in ReplaceInputs
    /\ ret = NoRet
    /\ Started

\* (start = result.find(from, start)) != npos, and `return result` when not
ReplaceFind ==
    /\ arg.op = "Replace"
    /\ arg.pc = "find"
    /\ LET start == FindFrom(arg.result, arg.from, arg.start)
       IN IF start # npos
          THEN /\ arg' = [arg EXCEPT !.start = start, !.pc = "replace"]
               /\ UNCHANGED ret
          ELSE /\ arg' = [arg EXCEPT !.pc = "done"]
               /\ ret' = <<"Replace", arg.result>>
    /\ UNCHANGED program

\* result.replace(start, from.length(), to); start += to.length()
ReplaceBody ==
    /\ arg.op = "Replace"
    /\ arg.pc = "replace"
    /\ LET result == StrReplace(arg.result, arg.start + 1, Len(arg.from),
                                arg.to)
       IN IF Len(result) <= MaxResult
          THEN /\ arg' = [arg EXCEPT !.result = result,
                                     !.start = @ + Len(arg.to),
                                     !.pc = "find"]
               /\ UNCHANGED ret
          ELSE /\ arg' = [arg EXCEPT !.pc = "done"]
               /\ ret' = <<"length_error", arg.result>>
    /\ UNCHANGED program

NextReplace == ReplaceFind \/ ReplaceBody

\* the calling thread keeps running
SpecReplace ==
    /\ InitReplace
    /\ [][NextReplace]_vars
    /\ WF_vars(NextReplace)

(* ------------------ StringUtils::Split(str, char) ---------------------- *)
\* the loop `while (std::getline(token_stream, token, delimiter))` with the
\* stream at position pos: getline fails when nothing is left to read, takes
\* the characters up to the next delimiter and skips it, or takes the rest
RECURSIVE GetlineFrom(_, _, _, _)
GetlineFrom(str, delimiter, pos, tokens) ==
    IF pos >= Len(str) THEN tokens
    ELSE LET end == FindFrom(str, <<delimiter>>, pos)
         IN IF end # npos
            THEN GetlineFrom(str, delimiter, end + 1,
                             Append(tokens, Substr(str, pos, end - pos)))
            ELSE GetlineFrom(str, delimiter, Len(str),
                             Append(tokens, SubstrFrom(str, pos)))

\* StringUtils::Split(const std::string&, char)
SplitChar(str, delimiter) == GetlineFrom(str, delimiter, 0, <<>>)

\* a call splits str by a character with one overload and with the other
SplitCharInputs ==
    {[op |-> "Split", str |-> str, delimiter |-> delimiter] :
        str \in StringsUpTo(MaxStr), delimiter \in Chars}

InitSplitChar ==
    /\ arg \in SplitCharInputs
    /\ ret = NoRet
    /\ Started

\* Split(str, c) and Split(str, std::string(1, c))
SplitCharCall ==
    /\ ret = NoRet
    /\ ret' = <<SplitChar(arg.str, arg.delimiter),
                Split(arg.str, <<arg.delimiter>>)>>
    /\ UNCHANGED <<arg, program>>

NextSplitChar == SplitCharCall

SpecSplitChar == InitSplitChar /\ [][NextSplitChar]_vars

(* ============================== claims ================================= *)
InLog(t) ==
    pc[t] \in {"log_format", "log_subst", "log_console", "log_console_endl",
               "log_file", "log_file_endl"}

Suffix(s, n) == SubSeq(s, Len(s) - n + 1, Len(s))
Since(s, n) == SubSeq(s, n + 1, Len(s))
IsPrefix(s, r) == Len(s) <= Len(r) /\ SubSeq(r, 1, Len(s)) = s
OnlyAppended ==
    /\ IsPrefix(cout, cout')
    /\ IsPrefix(cerr, cerr')
    /\ \A p \in Paths : IsPrefix(disk[p], disk'[p])

\* C1: a Log call whose level is below the logger's threshold returns from
\* the threshold test: it writes nothing to standard output, standard error
\* or any file, and leaves the logger's state (its mutex included) unchanged.
C1_FilteredLogHasNoEffect ==
    [][\A t \in Threads :
          (/\ pc[t] = "log_check"
           /\ pc'[t] # "log_check"
           /\ frame[t].level < pImpl_[frame[t].lg].current_level_)
          => /\ pc'[t] = "idle"
             /\ UNCHANGED <<pImpl_, cout, cerr, disk>>
             /\ Written' = pre]_vars

\* a WARN call on a logger thresholded at ERROR that has written before
C1_Witness ==
    /\ pc["t1"] = "log_check"
    /\ frame["t1"].level = WARN
    /\ pImpl_[1].current_level_ = ERROR
    /\ cerr # Empty

\* the loggers GetLogger has created for name n: neither the default logger
\* of the manager's constructor nor one the application constructed
CreatedFor(n) ==
    {p \in DOMAIN pImpl_ \ ({1} \cup made) : pImpl_[p].name_ = n}

Level(p) == pImpl_[p].current_level_
LevelAfter(p) == pImpl_'[p].current_level_

\* C2: any two GetLogger returns for the same name are the same instance,
\* whatever GetLogger calls for other names and SetGlobalLevel calls happen
\* in between; for a name other than "" and "default" also when
\* SetDefaultLogger has assigned the default logger in between.
C2_SameNameSameInstance ==
    \A i, j \in DOMAIN obtained :
        (/\ obtained[i][1] = obtained[j][1]
         /\ (obtained[i][1] \in DefaultNames => obtained[i][3] = obtained[j][3]))
        => obtained[i][2] = obtained[j][2]

\* GetLogger("app") has returned twice, with an assignment of the default
\* logger between the two returns
C2_Witness ==
    /\ Len(obtained) = 2
    /\ obtained[1][1] = S_app
    /\ obtained[2][1] = S_app
    /\ obtained[1][3] = 0
    /\ obtained[2][3] = 1

\* C3: however GetLogger calls of several threads for one name other than ""
\* and "default" overlap, at most one Logger is created for the name, and
\* every call that has returned returned that one, which is the one
\* registered.
C3_OneLoggerPerName ==
    \A n \in Names \ DefaultNames :
        /\ Cardinality(CreatedFor(n)) <= 1
        /\ \A i \in DOMAIN obtained :
              obtained[i][1] = n
              => /\ CreatedFor(n) = {obtained[i][2]}
                 /\ loggers_[n] = obtained[i][2]

\* one thread has created the logger for "app" and not yet registered it
\* while the other has called GetLogger("app") and waits for the lock
C3_Witness ==
    /\ pc["t1"] = "gl_insert"
    /\ frame["t1"].name = S_app
    /\ loggers_[S_app] = nullptr
    /\ pc["t2"] = "gl_lock"
    /\ frame["t2"].name = S_app

C5_NewLoggerHasGlobalLevel ==
    [][\A t \in Threads :
          /\ (pc[t] = "gl_insert" /\ pc'[t] = "idle")
             => LevelAfter(frame[t].lg) = lastGlobal
          /\ (\/ pc[t] \in {"gl_lock", "gl_find", "gl_create", "gl_insert",
                            "sd_lock", "sd_store"}
              \/ pc'[t] \in {"gl_lock", "sd_lock"})
             => \A p \in DOMAIN pImpl_ : LevelAfter(p) = Level(p)]_vars

\* SetGlobalLevel(WARN), then GetLogger("app"), which created a logger and
\* returned it at WARN
C5_Witness ==
    /\ pc["t1"] = "idle"
    /\ calls = [logger |-> 0, registry |-> 2]
    /\ lastGlobal = WARN
    /\ Len(obtained) = 1
    /\ obtained[1][1] = S_app
    /\ obtained[1][2] \in CreatedFor(S_app)
    /\ Level(obtained[1][2]) = WARN

\* C11: a GetLogger("") or GetLogger("default") call returns the logger of
\* the most recent SetDefaultLogger call (the constructor's default logger
\* when there was none), and no step of SetDefaultLogger changes any logger
\* (threshold, file, toggles, pattern) or any handle returned earlier.
C11_DefaultIsReplacedOnly ==
    [][\A t \in Threads :
          /\ (pc[t] \in {"sd_lock", "sd_store"} \/ pc'[t] = "sd_lock")
             => pImpl_' = pImpl_ /\ obtained' = obtained
          /\ (/\ pc[t] = "gl_find"
              /\ frame[t].name \in DefaultNames
              /\ pc'[t] = "idle")
             => /\ Len(obtained') = Len(obtained) + 1
                /\ obtained'[Len(obtained')][2] = lastDefault
                /\ SubSeq(obtained', 1, Len(obtained)) = obtained]_vars

\* GetLogger("") returned the constructor's default logger, the application
\* installed a logger of its own, and GetLogger("default") returned that one
C11_Witness ==
    /\ pc["t1"] = "idle"
    /\ Len(obtained) = 2
    /\ obtained[1] = <<Empty, 1, 0>>
    /\ obtained[2][1] = S_default
    /\ obtained[2][2] \in made
    /\ lastDefault \in made
    /\ Level(1) = INFO

\* C12 as stated: two GetLogger returns for different names are different
\* instances.
C12_DifferentNamesDiffer ==
    \A i, j \in DOMAIN obtained :
        obtained[i][1] # obtained[j][1] => obtained[i][2] # obtained[j][2]

\* C12 amended: two GetLogger returns for different names are different
\* instances unless both names are among "" and "default", or one of them
\* is and SetDefaultLogger had been called before that return; and no two
\* names are registered to one instance.
C12_NamedLoggersDiffer ==
    /\ \A i, j \in DOMAIN obtained :
          (/\ obtained[i][1] # obtained[j][1]
           /\ obtained[i][2] = obtained[j][2])
          => \/ {obtained[i][1], obtained[j][1]} \subseteq DefaultNames
             \/ obtained[i][1] \in DefaultNames /\ obtained[i][3] > 0
             \/ obtained[j][1] \in DefaultNames /\ obtained[j][3] > 0
    /\ \A n1, n2 \in Names :
          (n1 # n2 /\ loggers_[n1] # nullptr) => loggers_[n1] # loggers_[n2]

\* GetLogger has returned for "app", for "net" and for "default"
C12_Witness ==
    /\ Len(obtained) = 3
    /\ {obtained[i][1] : i \in DOMAIN obtained} = {S_app, S_net, S_default}
    /\ \A t \in Threads : pc[t] = "idle"

C14_ParseInvertsToString ==
    (arg.op = "LogLevelToString" /\ ret # NoRet /\ arg.level \in LogLevel)
    => ret[2] = arg.level

\* the round trip has been made for TRACE, whose name is in upper case
C14_Witness ==
    /\ arg = [op |-> "LogLevelToString", text |-> Empty, level |-> TRACE]
    /\ ret = <<<<"T", "R", "A", "C", "E">>, TRACE>>

\* the level a lower-case word stands for
LevelOf(w) ==
    CASE w = W_trace -> TRACE
      [] w = W_debug -> DEBUG
      [] w = W_info -> INFO
      [] w \in {W_warn, W_warning} -> WARN
      [] w = W_error -> ERROR
      [] w = W_fatal -> FATAL

\* C15: ParseLogLevel gives every casing of trace, debug, info, warn,
\* warning, error, fatal the level TRACE, DEBUG, INFO, WARN, WARN, ERROR,
\* FATAL, and every other string, the empty one included, INFO; it always
\* returns a level.
C15_ParseIgnoresCase ==
    (arg.op = "ParseLogLevel" /\ ret # NoRet)
    => /\ ret[1] \in LogLevel
       /\ \A w \in LevelWords :
             arg.text \in Casings(w) => ret[1] = LevelOf(w)
       /\ (\A w \in LevelWords : arg.text \notin Casings(w))
             => ret[1] = INFO

\* "WaRnInG" has been parsed
C15_Witness ==
    /\ arg = [op |-> "ParseLogLevel", level |-> INFO,
              text |-> <<"W", "a", "R", "n", "I", "n", "G">>]
    /\ ret = <<WARN>>

\* C6: two Log calls on one logger are never both between taking the mutex
\* and releasing it, and the text a call has written is still the end of the
\* stream (of the file buffer) when the call writes its line end.
C6_LogCallsDoNotInterleave ==
    \A t \in Threads :
        /\ \A u \in Threads \ {t} :
              InLog(t) /\ InLog(u) => frame[t].lg # frame[u].lg
        /\ pc[t] = "log_console_endl" =>
              Suffix(IF frame[t].level >= ERROR THEN cerr ELSE cout,
                     Len(frame[t].formatted)) = frame[t].formatted
        /\ pc[t] = "log_file_endl" =>
              pImpl_[frame[t].lg].file_stream_.buf = frame[t].formatted

\* one thread between its text and its line end, the other waiting to lock
C6_Witness ==
    /\ pc["t1"] = "log_console_endl"
    /\ pc["t2"] = "log_lock"
    /\ frame["t1"].lg = frame["t2"].lg

\* C7: while a Log call is between the start of its formatting and the end
\* of its writes, the logger's pattern and toggles do not change.
C7_ReconfigurationExcludedByLog ==
    [][\A t \in Threads :
          InLog(t) =>
             LET lg == frame[t].lg
             IN /\ pImpl_'[lg].pattern_ = pImpl_[lg].pattern_
                /\ pImpl_'[lg].console_enabled_ = pImpl_[lg].console_enabled_
                /\ pImpl_'[lg].timestamp_enabled_
                      = pImpl_[lg].timestamp_enabled_]_vars

\* C8: when a Log call that passed the threshold returns, what was written
\* since the call was made is: with the console enabled, its line on
\* standard error if level >= ERROR and on standard output otherwise, and
\* nothing on the other stream; the same line at the end of the open file,
\* if any; nothing anywhere else.  Nothing written earlier is changed.
C8_OneLinePerDestination ==
    [][/\ OnlyAppended
       /\ \A t \in Threads :
            (pc[t] \in {"log_file", "log_file_endl"} /\ pc'[t] = "idle") =>
               LET impl == pImpl_[frame[t].lg]
                   fs == impl.file_stream_
                   line == Append(frame[t].formatted, NL)
                   console == impl.console_enabled_
                   toErr == frame[t].level >= ERROR
               IN /\ Since(cout', pre.cout)
                        = IF console /\ ~toErr THEN line ELSE Empty
                  /\ Since(cerr', pre.cerr)
                        = IF console /\ toErr THEN line ELSE Empty
                  /\ \A p \in Paths :
                        Since(disk'[p], pre.disk[p])
                           = IF fs.is_open /\ fs.path = p THEN line
                             ELSE Empty]_vars

\* an ERROR call has returned: its line is on standard error and in the
\* file, and standard output has nothing
C8_Witness ==
    /\ pc["t1"] = "idle"
    /\ cerr # Empty
    /\ disk[X_log] = cerr
    /\ cout = Empty

FileLine(now, message) ==
    Append(FormatMessage(pImpl_[1].pattern_, pImpl_[1].timestamp_enabled_,
                         pImpl_[1].name_, now, INFO, message), NL)

\* the two lines of the scenario
TwoLines(n1, n2) == FileLine(n1, <<"a">>) \o FileLine(n2, <<"b">>)

\* C9 as stated: after SetOutputFile("x.log"), Log(INFO, "a"),
\* Log(INFO, "b") on a logger whose threshold is at most INFO, and Flush(),
\* x.log holds exactly two lines: the active pattern formatted with "a",
\* then with "b".
C9_ExactlyTwoLines ==
    (scenario[1] = "flushed" /\ pc["t1"] = "idle") =>
        \E n1 \in TimeStamps, n2 \in TimeStamps :
            disk[X_log] = TwoLines(n1, n2)

\* C9 amended: after the scenario x.log ends with the line for "a" followed
\* by the line for "b", each the active pattern formatted with the message;
\* these two lines are the whole file when x.log was empty at the
\* SetOutputFile call.
C9_TwoLinesInCallOrder ==
    (scenario[1] = "flushed" /\ pc["t1"] = "idle") =>
        \E n1 \in TimeStamps, n2 \in TimeStamps :
            /\ Len(disk[X_log]) >= Len(TwoLines(n1, n2))
            /\ Suffix(disk[X_log], Len(TwoLines(n1, n2))) = TwoLines(n1, n2)
            /\ scenario[2] = "fresh" => disk[X_log] = TwoLines(n1, n2)

\* the scenario has run on an empty x.log, under a pattern the application
\* set
C9_Witness ==
    /\ scenario = <<"flushed", "fresh">>
    /\ pc["t1"] = "idle"
    /\ pImpl_[1].pattern_ = ShortPattern

\* C10 as claimed: when SetOutputFile(path) returns, the logger has path
\* open if path is non-empty and no file open if it is empty.
C10_NonEmptyPathIsOpen ==
    [][\A t \in Threads :
          (pc[t] = "sof_open" /\ pc'[t] = "idle") =>
             LET fs == pImpl_'[frame[t].lg].file_stream_
             IN IF frame[t].filename # Empty
                THEN fs.is_open /\ fs.path = frame[t].filename
                ELSE ~fs.is_open]_vars

\* C10, amended: SetOutputFile has closed the previous file when it opens
\* the next; when it returns the logger has path open if path could be
\* opened and no file open otherwise (empty path, or open failed); no step
\* removes or changes what a file holds; and a Log call on a logger with no
\* file open writes to no file.
C10_OpenablePathIsOpen ==
    [][\A t \in Threads :
          /\ pc[t] = "sof_open" => ~pImpl_[frame[t].lg].file_stream_.is_open
          /\ (pc[t] = "sof_open" /\ pc'[t] = "idle") =>
                LET fs == pImpl_'[frame[t].lg].file_stream_
                IN IF frame[t].filename \in Openable
                   THEN fs.is_open /\ fs.path = frame[t].filename
                   ELSE ~fs.is_open
          /\ \A p \in Paths : IsPrefix(disk[p], disk'[p])
          /\ (InLog(t) /\ ~pImpl_[frame[t].lg].file_stream_.is_open)
                => disk' = disk]_vars

\* x.log was written, then y.log was opened and written
C10_Witness ==
    /\ pc["t1"] = "idle"
    /\ pImpl_[1].file_stream_.is_open
    /\ pImpl_[1].file_stream_.path = Y_log
    /\ disk[X_log] # Empty
    /\ disk[Y_log] # Empty

\* C16: IsValid() returns true exactly when server address, model name,
\* model type and source are non-empty, the model name holds neither '/'
\* nor '\', the port is in 1..65535 and the protocol is "http" or "grpc".
C16_IsValidIsTheInvariant ==
    (ret # NoRet /\ ret[1] = "IsValid") =>
        LET config == arg.config
        IN ret[2] <=>
              /\ config.server_address_ # Empty
              /\ config.model_name_ # Empty
              /\ config.model_type_ # Empty
              /\ config.source_ # Empty
              /\ \A i \in DOMAIN config.model_name_ :
                    config.model_name_[i] \notin {"/", "\\"}
              /\ config.port_ \in 1..65535
              /\ config.protocol_ \in {S_http, S_grpc}

\* C17: ValidateConfig returns true for the configuration CreateDefault
\* returned, also after its server address, port and batch size were set to
\* valid values.
C17_DefaultConfigIsValid ==
    (/\ ret # NoRet
     /\ ret[1] = "ValidateConfig"
     /\ arg.config.server_address_ # Empty
     /\ arg.config.port_ \in 1..65535
     /\ arg.config.batch_size_ >= 1
     /\ \A field \in DOMAIN CreateDefault \
                       {"server_address_", "port_", "batch_size_"} :
           arg.config[field] = CreateDefault[field])
    => ret[2]

\* C18: in the configuration Merge(base, override) returns, every boolean
\* field has the override's value and every other field has the override's
\* value if that differs from the field's default and base's value
\* otherwise; this for every field of InferenceConfig.
C18_MergeTakesEveryField ==
    (arg.op = "Merge" /\ ret # NoRet) =>
        \A field \in Fields :
            ret[1][field] =
                IF field \in BoolFields
                   \/ arg.override[field] # InferenceConfig[field]
                THEN arg.override[field]
                ELSE arg.base[field]

\* delimiter occurs in str
Occurs(delimiter, str) == FindFrom(str, delimiter, 0) # npos

\* C19 as claimed: for every non-empty list parts and every non-empty
\* delimiter d that occurs inside no element of parts,
\* Split(Join(parts, d), d) = parts.
C19_SplitInvertsJoin ==
    (/\ arg.op = "JoinSplit"
     /\ ret # NoRet
     /\ \A i \in DOMAIN arg.parts : ~Occurs(arg.delimiter, arg.parts[i]))
    => ret[2] = arg.parts

\* C19, amended: for every non-empty list parts and every non-empty
\* delimiter d that occurs inside no element of parts and that, in an
\* element other than the last followed by d, occurs only at the end,
\* Split(Join(parts, d), d) = parts.
C19_SplitInvertsUnambiguousJoin ==
    (/\ arg.op = "JoinSplit"
     /\ ret # NoRet
     /\ \A i \in DOMAIN arg.parts : ~Occurs(arg.delimiter, arg.parts[i])
     /\ \A i \in 1..(Len(arg.parts) - 1) :
           FindFrom(arg.parts[i] \o arg.delimiter, arg.delimiter, 0)
              = Len(arg.parts[i]))
    => ret[2] = arg.parts

\* "a", "" and "a:" have been joined with "::" and the result split by it
C19_Witness ==
    /\ arg = [op |-> "JoinSplit", delimiter |-> <<":", ":">>,
              parts |-> <<<<"a">>, <<>>, <<"a", ":">>>>]
    /\ ret = <<<<"a", ":", ":", ":", ":", "a", ":">>,
               <<<<"a">>, <<>>, <<"a", ":">>>>>>

\* n < m, for two numbers in base 1024
Less(n, m) ==
    \E i \in DOMAIN n :
        n[i] < m[i] /\ \A j \in DOMAIN n : j > i => n[j] = m[j]

\* the place in units of the unit a text ends with, counted from 0
UnitIndex(text) ==
    CHOOSE u \in 0..4 :
        /\ Len(text) > Len(units[u + 1])
        /\ Suffix(text, Len(units[u + 1]) + 1) = <<" ">> \o units[u + 1]

\* C20: FormatBytes(n) ends with the unit B, KB, MB, GB, TB of index
\* min(4, floor(log base 1024 of n)), 0 for n < 1024; the unit of a larger
\* n is never a smaller one; and FormatBytes(1024^k) is "1.00 KB",
\* "1.00 MB", "1.00 GB" for k = 1, 2, 3.
C20_UnitGrowsWithSize ==
    (arg.op = "FormatBytes" /\ ret # NoRet) =>
        /\ \E u \in 0..4 :
              /\ u = Min({4, Top(arg.bytes) - 1})
              /\ Len(ret[1]) > Len(units[u + 1])
              /\ Suffix(ret[1], Len(units[u + 1]) + 1) = <<" ">> \o units[u + 1]
        /\ Less(arg.bytes, arg.more) => UnitIndex(ret[1]) <= UnitIndex(ret[2])
        /\ arg.bytes = Power(1) => ret[1] = <<"1", ".", "0", "0", " ", "K", "B">>
        /\ arg.bytes = Power(2) => ret[1] = <<"1", ".", "0", "0", " ", "M", "B">>
        /\ arg.bytes = Power(3) => ret[1] = <<"1", ".", "0", "0", " ", "G", "B">>

\* 1024 * 1024 and 1024^5 have been formatted
C20_Witness ==
    /\ arg = [op |-> "FormatBytes", bytes |-> Power(2), more |-> Power(5)]
    /\ ret = <<<<"1", ".", "0", "0", " ", "M", "B">>,
               <<"1", "0", "2", "4", ".", "0", "0", " ", "T", "B">>>>

\* the text a token stands for in the call
ValueOf(token) ==
    CASE token = TokTimestamp -> CHOOSE now \in TimeStamps : TRUE
      [] token = TokLevel -> LogLevelToString(arg.level)
      [] token = TokName -> arg.name
      [] token = TokMessage -> arg.message

\* piece i of the pattern is a token the call has a value for, and the first
\* such piece
IsFirst(i) ==
    /\ arg.pieces[i] \in Tokens
    /\ arg.pieces[i] = TokTimestamp => arg.timestamp_enabled
    /\ \A j \in 1..(i - 1) : arg.pieces[j] # arg.pieces[i]

\* what piece i becomes, and the text the pieces before piece i become
ImageOf(i) == IF IsFirst(i) THEN ValueOf(arg.pieces[i]) ELSE arg.pieces[i]
RECURSIVE ImageBefore(_)
ImageBefore(i) ==
    IF i <= 1 THEN Empty ELSE ImageBefore(i - 1) \o ImageOf(i - 1)

\* C21: of each token {timestamp} (while timestamps are enabled), {level},
\* {name}, {message} the first occurrence in the pattern is replaced by its
\* value in the emitted line and every later occurrence stands there as
\* literal text; a pattern without a token is formatted all the same.
C21_OnlyFirstOccurrence ==
    (arg.op = "FormatMessage" /\ ret # NoRet) =>
        \A i \in DOMAIN arg.pieces :
            arg.pieces[i] \in Tokens =>
                /\ Len(ImageBefore(i)) + Len(ImageOf(i)) <= Len(ret[1])
                /\ SubSeq(ret[1], Len(ImageBefore(i)) + 1,
                          Len(ImageBefore(i)) + Len(ImageOf(i))) = ImageOf(i)

\* one pass over the pattern from position i on: a token met for the first
\* time gives its value, everything else is copied
RECURSIVE SinglePass(_, _, _)
SinglePass(pattern, i, used) ==
    IF i > Len(pattern) THEN Empty
    ELSE LET here == {token \in Tokens \ used :
                        /\ token = TokTimestamp => arg.timestamp_enabled
                        /\ i + Len(token) - 1 <= Len(pattern)
                        /\ SubSeq(pattern, i, i + Len(token) - 1) = token}
         IN IF here = {}
            THEN <<pattern[i]>> \o SinglePass(pattern, i + 1, used)
            ELSE LET token == CHOOSE token \in here : TRUE
                 IN ValueOf(token)
                    \o SinglePass(pattern, i + Len(token), used \cup {token})

\* C22: the emitted line is the pattern with the first occurrence of each of
\* its tokens replaced by the token's value, for every logger name and
\* message: text a substitution inserted is not matched by a later one.
C22_SinglePass ==
    (arg.op = "FormatMessage" /\ ret # NoRet) =>
        ret[1] = SinglePass(Flatten(arg.pieces), 1, {})

\* the rules of a valid configuration in the order they are tested, each
\* with the message of its violation
Rules(config) ==
    <<[broken |-> config.server_address_ = Empty, message |-> E_address],
      [broken |-> config.model_name_ = Empty, message |-> E_name],
      [broken |-> \E i \in DOMAIN config.model_name_ :
                      config.model_name_[i] \in {"/", "\\"},
       message |-> E_path],
      [broken |-> config.model_type_ = Empty, message |-> E_type],
      [broken |-> config.source_ = Empty, message |-> E_source],
      [broken |-> config.port_ \notin 1..65535, message |-> E_port],
      [broken |-> config.protocol_ \notin {S_http, S_grpc},
       message |-> E_protocol]>>

IsBroken(rule) == rule.broken

\* C23: IsValid() is true exactly when GetValidationErrors() is the empty
\* string, whatever the fields hold; a string that is not empty is the
\* messages of the violated rules, in the order of the rules, joined by
\* "; ".
C23_ValidIffNoErrors ==
    (ret # NoRet /\ ret[1] = "GetValidationErrors") =>
        LET broken == SelectSeq(Rules(arg.config), IsBroken)
        IN /\ ret[2] <=> ret[3] = Empty
           /\ ret[3] = Join([i \in DOMAIN broken |-> broken[i].message],
                            <<";", " ">>)

\* C24: with GetLogger and SetGlobalLevel calls only, made by several
\* threads at once, whenever no call is in progress the default logger and
\* every registered logger have the registry's global level as threshold.
C24_NoStaleLevel ==
    (\A t \in Threads : pc[t] = "idle") =>
        /\ Level(default_logger_) = global_level_
        /\ \A n \in Registered : Level(loggers_[n]) = global_level_

\* both threads have made calls, one of them created "app", and the global
\* level was set twice, last to WARN
C24_Witness ==
    /\ \A t \in Threads : pc[t] = "idle"
    /\ loggers_[S_app] # nullptr
    /\ global_level_ = WARN
    /\ Level(loggers_[S_app]) = WARN
    /\ calls.registry = MaxReg

\* no thread holds the registry mutex and the write mutex of a logger
NoTwoMutexes ==
    \A t \in Threads :
        manager_mutex_ = t =>
            \A p \in DOMAIN pImpl_ : pImpl_[p].log_mutex_ # t

Newest(n) == SubSeq(arg.stamps, Len(arg.stamps) - n + 1, Len(arg.stamps))

\* n - 1 intervals from the oldest to the newest of n time points
Measured(n) ==
    LET span == Milliseconds(Newest(n)[n] - Newest(n)[1])
    IN IF span > 0 THEN Quotient((n - 1) * 1000, span) ELSE Zero

\* C26: with a window size w >= 1, after any Update and Reset calls,
\* 0 <= current_index_ < w, buffer_full_ is true exactly when at least w
\* Updates happened since construction or the last Reset, and GetCurrentFPS
\* returns 0 after fewer than 2 such Updates and otherwise the rate of the
\* min(updates, w) - 1 intervals between the oldest and the newest of the
\* last min(updates, w) time points (0 when they are less than 1 ms apart).
C26_WindowInvariants ==
    (arg.op = "FPSCounter" /\ arg.counter.window_size_ >= 1) =>
        /\ 0 <= arg.counter.current_index_
        /\ arg.counter.current_index_ < arg.counter.window_size_
        /\ arg.counter.buffer_full_
              <=> Len(arg.stamps) >= arg.counter.window_size_
        /\ ret # NoRet =>
              ret[2] = IF Len(arg.stamps) < 2 THEN Zero
                       ELSE Measured(Min({Len(arg.stamps),
                                          arg.counter.window_size_}))

\* GetCurrentFPS measured two intervals of a window of three that has wrapped
C26_Witness ==
    /\ arg.op = "FPSCounter"
    /\ arg.counter.window_size_ = 3
    /\ Len(arg.stamps) = 4
    /\ arg.counter.current_index_ = 1
    /\ ret # NoRet
    /\ ret[2] = <<1000, 1>>

\* C27: no FPSCounter operation divides or takes a remainder by zero, for
\* every window size the constructor accepts, 0 included, and for time
\* points less than 1 ms apart.
C27_NoRemainderByZero ==
    arg.op = "FPSCounter" => arg.fault = "none"

\* the time from the last Start to the last Stop of a running timer, in ms
LastInterval == Quotient(Microseconds(arg.ended - arg.began), 1000)

\* what a timer that is not running reports, whatever the clock shows
StoppedIsConstant ==
    (arg.op = "Timer" /\ ~arg.timer.is_running_) =>
        /\ LastInterval[1] >= 0
        /\ \A now \in arg.clock..MaxClock :
              GetElapsedMs(arg.timer, now) = LastInterval
        /\ ret # NoRet => ret[2] = LastInterval

\* a running timer measures from the reading of the last Start
RunningMeasuresFromStart ==
    (arg.op = "Timer" /\ arg.timer.is_running_) =>
        /\ arg.timer.start_time_ = arg.began
        /\ ret # NoRet =>
              ret[2] = Quotient(Microseconds(arg.clock - arg.began), 1000)

RECURSIVE Scanned(_, _, _, _)
Scanned(str, from, to, i) ==
    IF i >= Len(str) THEN Empty
    ELSE IF /\ i + Len(from) <= Len(str)
            /\ Substr(str, i, Len(from)) = from
         THEN to \o Scanned(str, from, to, i + Len(from))
         ELSE <<str[i + 1]>> \o Scanned(str, from, to, i + 1)

\* C29: Replace(str, from, to) terminates for every input, an empty from
\* and a to that contains from included, and returns str with every
\* non-overlapping occurrence of from, scanned left to right, replaced by
\* to, without rescanning inserted text.
C29_ReplaceTerminates ==
    /\ <>(ret # NoRet)
    /\ []((ret # NoRet /\ arg.from # Empty) =>
             ret = <<"Replace", Scanned(arg.str, arg.from, arg.to, 0)>>)

\* C30: for every string s and character c, Split(s, c) returns the same
\* tokens as Split(s, string(1, c)), for the empty string, for s ending with
\* c and for consecutive delimiters too.
C30_OverloadsAgree ==
    (arg.op = "Split" /\ ret # NoRet) => ret[1] = ret[2]

====
